---- MODULE Spec2Model ----
(***************************************************************************)
(* Model of the LLM inference scheduler: score calculation, pool           *)
(* membership fetch and failure classification, F5 token handling, and    *)
(* the metrics sweep interleaved with selection on the asyncio loop.      *)
(* Reals are fixed point: weights in tenths, cache usage in hundredths,   *)
(* scores and normalised values in thousandths (1000 = 1.0).              *)
(***************************************************************************)
EXTENDS Integers, Sequences, FiniteSets, TLC

\* ---------------------------------------------------------------- bounds
MaxWaiting == 2
NumMembers == 2
CacheValues == {0, 30, 60}

\* ------------------------------------------------------- program constants
InitialScore == 1          \* PoolMember.score = 0.001

Min(a, b) == IF a < b THEN a ELSE b
Max(a, b) == IF a > b THEN a ELSE b
SeqMin(s) == CHOOSE x \in {s[i] : i \in 1..Len(s)} : \A i \in 1..Len(s) : x <= s[i]
SeqMax(s) == CHOOSE x \in {s[i] : i \in 1..Len(s)} : \A i \in 1..Len(s) : x >= s[i]

\* weights of a mode configuration, in tenths (w_a, w_b)
WeightPairs == {<<2, 8>>, <<5, 5>>}
Algorithms == {"s1", "s1_ratio"}

\* Absent metrics: the member's metrics dict is empty
NoMetrics == [present |-> FALSE, wq |-> 0, cu |-> 0]
MetricsValues == {NoMetrics} \cup
                 [present : {TRUE}, wq : 0..MaxWaiting, cu : CacheValues]

VARIABLES smembers     \* pool.members for the score calculator: <<[metrics, score]>>

\* pool registry (POOLS) for one configured pool key (name, partition)
VARIABLES present,     \* pool_key \in POOLS
          rmembers,    \* POOLS[pool_key].members: <<[key, metrics, score]>>
          fails,       \* POOLS[pool_key]._consecutive_failures
          lastOp,      \* last operation of the model (history)
          lastEv,      \* outcome of the last get_pool_members call (history)
          counted,     \* should_count_failure of the last failure (history)
          prevFails,   \* counter before the last fetch (history)
          failAfter,   \* counter of the pool object after the last fetch (history)
          seriousRun,  \* serious failures since the last successful fetch (history)
          selResult,   \* result of the last selection (history)
          oldMembers,  \* pool.members before the last reconciliation (history)
          newList      \* member list N of the last successful fetch (history)

regVars == <<present, rmembers, fails, lastOp, lastEv, counted, prevFails,
             failAfter, seriousRun, selResult, oldMembers, newList>>

\* F5Client: token cache, token lock and the concurrent callers
VARIABLES cur,         \* current_token (0 = None)
          curExpired,  \* time.time() >= current_token.expiration_time
          lockHolder,  \* owner of _token_lock (0 = free)
          cpc,         \* position of each caller of get_pool_members
          tok,         \* the caller's local `token`
          reqs,        \* tokens sent by the caller's member GETs in this call (history)
          got401,      \* the caller's first GET returned 401 (history)
          logins401,   \* logins made by the caller's 401 path in this call (history)
          retryStatus, \* status of the caller's retry GET, 0 if none (history)
          result       \* outcome of the caller's last call (history)

clientVars == <<cur, curExpired, lockHolder, cpc, tok, reqs, got401, logins401,
                retryStatus, result>>

\* metrics sweep of one pool interleaved with membership updates and selection
VARIABLES pmembers,    \* pool.members: <<[key, metrics, score]>>
          mpc,         \* position of the pool's metrics task
          snap,        \* members whose scrape tasks were created (collect_pool_metrics)
          results,     \* results of the scrape tasks (Pending until done)
          calcIdx,     \* next member of the score loop
          gen,         \* sweep counter, tags metrics and scores
          stable,      \* pool.members at the end of the last update (history)
          selSeen,     \* pool.members as observed by the last selection (history)
          calcView,    \* pool.members when score calculation started (history)
          preSweep     \* pool.members when the last sweep started (history)

\* score calculator over metrics dicts with optional keys
VARIABLES cmembers,    \* pool.members: <<[metrics, score]>>
          cop,         \* last operation: "init", "scrape" or "calc" (history)
          lastCalc,    \* <<algorithm, weights>> of the last calculation (history)
          repeat       \* last step recalculated with the config of the previous one (history)

calcVars == <<cmembers, cop, lastCalc, repeat>>

\* one call of WeightedRandomSelector.select
VARIABLES selIn,       \* scores of the members passed to select, in order
          selT,        \* random_point of the weighted walk (0 if no draw)
          selRaised,   \* the weighted choice raised inside select's try block
          selOut,      \* position in selIn of the returned member (0 = None)
          selDone      \* select has returned

selVars == <<selIn, selT, selRaised, selOut, selDone>>

\* POST /scheduler/select for one configured pool
VARIABLES apiPresent,  \* pool_key \in POOLS
          apiCfg,      \* the pool's PoolConfig.fallback in the current configuration
          apiMembers,  \* POOLS[pool_key].members: <<[key, score, rr, wq]>>
          apiReq,      \* request.members of the last request (history)
          apiResp,     \* HTTP status and body of the last response (history)
          apiDone      \* a response was sent since the last configuration change

apiVars == <<apiPresent, apiCfg, apiMembers, apiReq, apiResp, apiDone>>

\* configuration file and ConfigHotReloader
VARIABLES fExists,     \* os.path.exists(config_file)
          fMtime,      \* os.path.getmtime(config_file)
          fContent,    \* bytes of config_file
          hInit,       \* self.initialized
          hLastM,      \* self.last_mtime
          hLastH,      \* self.last_hash
          hCalls,      \* calls of detect_changes so far, counted up to 2 (history)
          hRet,        \* value returned by the last detect_changes (history)
          hPrevInit,   \* self.initialized before the last call (history)
          hPrevM,      \* self.last_mtime before the last call (history)
          hPrevH,      \* self.last_hash before the last call (history)
          hCalled      \* the last step was a detect_changes call (history)

hotVars == <<fExists, fMtime, fContent, hInit, hLastM, hLastH, hCalls, hRet,
             hPrevInit, hPrevM, hPrevH, hCalled>>

sweepVars == <<pmembers, mpc, snap, results, calcIdx, gen, stable, selSeen, calcView,
               preSweep>>

\* SchedulerApp configuration reload (apply_config_changes) and the pool
\* fetch loop
VARIABLES acfg,        \* self.config: [host, pools, eng, pfi, mfi]
          af5,         \* host of self.f5_client
          aReg,        \* keys of POOLS
          aFails,      \* Pool._consecutive_failures per pool key
          aIter,       \* pools (key, engine_type) of the running _fetch_all_pools
          aIdx,        \* position of its pending get_pool_members call
          aRpc,        \* apply_config_changes: "idle" or the await it is suspended in
          aNew,        \* new_config of the running apply_config_changes
          aReloads,    \* reloads started
          aPreF5,      \* host of self.f5_client when the reload started (history)
          aLast,       \* outcome of the last reload (history)
          aRestartP,   \* the last reload restarted the pool fetch task (history)
          aRestartM,   \* the last reload restarted the metrics task (history)
          aBadInput    \* the last reload read an empty host, no pools or a
                       \* non-positive interval (history)

applyVars == <<acfg, af5, aReg, aFails, aIter, aIdx, aRpc, aNew, aReloads, aPreF5,
               aLast, aRestartP, aRestartM, aBadInput>>

\* background loops and their restart by a configuration reload
VARIABLES lCfgP,       \* self.config.scheduler.pool_fetch_interval
          lCfgM,       \* self.config.scheduler.metrics_fetch_interval
          ptPc,        \* pool fetch task: "start", "sleep", "iter" or "done"
          ptIdx,       \* pools fetched in the current _fetch_all_pools
          ptSleep,     \* interval of the task's current sleep
          ptCancel,    \* cancel() was called on the task
          ptRestarted, \* the task was created by _restart_pool_fetch_task (history)
          ptTarget,    \* new pool_fetch_interval of the reload that created it (history)
          ptAborted,   \* an iteration exited before fetching every pool (history)
          mtPc,        \* metrics task: "start", "sleep", "iter" or "done"
          mtIdx,       \* pools scraped and scored in the current _collect_all_metrics
          mtInt,       \* interval_seconds of the task
          mtCancel,    \* cancel() was called on the task
          mtRestarted, \* the task was created by _restart_metrics_collection_task (history)
          mtTarget,    \* new metrics_fetch_interval of the reload that created it (history)
          mtAborted,   \* an iteration exited before processing every pool (history)
          rpc,         \* position of apply_config_changes in the config monitor task
          rNewP,       \* new_config.scheduler.pool_fetch_interval
          rNewM,       \* new_config.scheduler.metrics_fetch_interval
          rCount,      \* reloads started
          ptOk,        \* the reload that created the pool task completed (history)
          mtOk         \* the reload that created the metrics task completed (history)

loopVars == <<lCfgP, lCfgM, ptPc, ptIdx, ptSleep, ptCancel, ptRestarted, ptTarget,
              ptAborted, mtPc, mtIdx, mtInt, mtCancel, mtRestarted, mtTarget, mtAborted,
              rpc, rNewP, rNewM, rCount, ptOk, mtOk>>

\* one normaliser call
VARIABLES nAlg,   \* normaliser applied
          nIn,    \* its input values
          nOut,   \* its result
          nDone   \* the call returned

normVars == <<nAlg, nIn, nOut, nDone>>

\* one dynamic-waiting weight adjustment
VARIABLES dAlg,   \* "s1_dynamic_waiting" or "s2_dynamic_waiting"
          dW,     \* configured weights in tenths (w_a, w_b[, w_g])
          dM,     \* max_waiting
          dSt,    \* mode_config.steepness
          dTp,    \* mode_config.transition_point
          dIota,  \* waiting_intensity in thousandths
          dF,     \* weight factors in thousandths
          dEff,   \* effective weights in tenths, as <<numerator, denominator>>
          dDone   \* the weights were computed

dynVars == <<dAlg, dW, dM, dSt, dTp, dIota, dF, dEff, dDone>>

\* pool configuration, the POOLS registry and the membership fetch loop
VARIABLES ccfg,      \* self.config.pools, as a sequence of pool keys
          creg,      \* keys present in POOLS
          cfails,    \* Pool._consecutive_failures per key
          cfpc,      \* _pool_fetch_task: "idle" (sleeping) or "iter"
          cflist,    \* the list _fetch_all_pools iterates
          cfidx,     \* position of the pending get_pool_members call
          creloads,  \* reloads applied
          cgone      \* keys deleted by a reload and not configured since (history)

poolCfgVars == <<ccfg, creg, cfails, cfpc, cflist, cfidx, creloads, cgone>>

vars == <<smembers, present, rmembers, fails, lastOp, lastEv, counted, prevFails,
          failAfter, seriousRun, selResult, oldMembers, newList,
          cur, curExpired, lockHolder, cpc, tok, reqs, got401, logins401,
          retryStatus, result,
          pmembers, mpc, snap, results, calcIdx, gen, stable, selSeen, calcView,
          preSweep, calcVars, selVars, apiVars, hotVars, applyVars, loopVars, normVars, dynVars, poolCfgVars>>

\* ---------------------------------------------------------------------------
\* ScoreCalculator._min_max_normalize, result in thousandths
MinMaxNormalize(vals) ==
  IF Len(vals) = 1 THEN <<0>>
  ELSE LET lo == SeqMin(vals)
           hi == SeqMax(vals)
       IN IF hi = lo THEN [i \in 1..Len(vals) |-> 0]
          ELSE [i \in 1..Len(vals) |-> ((vals[i] - lo) * 1000) \div (hi - lo)]

\* ScoreCalculator._ratio_based_normalize, result in thousandths
RatioBasedNormalize(vals) ==
  IF Len(vals) = 1 THEN <<500>>
  ELSE IF Len(vals) = 2
       THEN LET v1 == vals[1]
                v2 == vals[2]
            IN IF v1 = v2 THEN <<500, 500>>
               ELSE IF Min(v1, v2) > 0
                    THEN IF v1 > v2
                         THEN <<(v1 * 1000) \div (v1 + v2), (v2 * 1000) \div (v1 + v2)>>
                         ELSE <<(v1 * 1000) \div (v1 + v2), (v2 * 1000) \div (v1 + v2)>>
                    ELSE MinMaxNormalize(vals)
       ELSE MinMaxNormalize(vals)

\* max(0.0, min(1.0, new_score))
Clamp(x) == Max(0, Min(1000, x))

\* indices of members with both waiting_queue and cache_usage present
ValidIdx(ms) == {i \in 1..Len(ms) : ms[i].metrics.present}

RECURSIVE SortedIdx(_)
SortedIdx(S) == IF S = {} THEN <<>>
                ELSE LET m == CHOOSE i \in S : \A j \in S : i <= j
                     IN <<m>> \o SortedIdx(S \ {m})

\* _calculate_s1_scores: w_a * (1 - minmax(waiting)) + w_b * (1 - cache), clamped
S1Scores(ms, w) ==
  LET idx == SortedIdx(ValidIdx(ms))
      wq  == [k \in 1..Len(idx) |-> ms[idx[k]].metrics.wq]
      nw  == MinMaxNormalize(wq)
      sc(k) == Clamp((w[1] * (1000 - nw[k])) \div 10
                     + w[2] * (100 - ms[idx[k]].metrics.cu))
  IN [i \in 1..Len(ms) |->
        IF \E k \in 1..Len(idx) : idx[k] = i
        THEN LET k == CHOOSE k \in 1..Len(idx) : idx[k] = i
             IN [ms[i] EXCEPT !.score = sc(k)]
        ELSE ms[i]]

\* _calculate_s1_ratio_scores: w_a * (1 - waiting) + w_b * (1 - ratio(cache)), not clamped
S1RatioScores(ms, w) ==
  LET idx == SortedIdx(ValidIdx(ms))
      cu  == [k \in 1..Len(idx) |-> ms[idx[k]].metrics.cu]
      nc  == RatioBasedNormalize(cu)
      sc(k) == w[1] * 100 * (1 - ms[idx[k]].metrics.wq)
               + (w[2] * (1000 - nc[k])) \div 10
  IN [i \in 1..Len(ms) |->
        IF \E k \in 1..Len(idx) : idx[k] = i
        THEN LET k == CHOOSE k \in 1..Len(idx) : idx[k] = i
             IN [ms[i] EXCEPT !.score = sc(k)]
        ELSE ms[i]]

\* ScoreCalculator.calculate_pool_scores: dispatch on mode_config.name
CalculatePoolScores(ms, algo, w) ==
  IF Len(ms) = 0 THEN ms
  ELSE IF algo = "s1" THEN S1Scores(ms, w)
  ELSE S1RatioScores(ms, w)

\* ------------------------------------------------------------ score spec
ClientFixed ==
  /\ cur = 0 /\ curExpired = FALSE /\ lockHolder = 0 /\ cpc = <<>> /\ tok = <<>>
  /\ reqs = <<>> /\ got401 = <<>> /\ logins401 = <<>> /\ retryStatus = <<>>
  /\ result = <<>>

SweepFixed ==
  /\ pmembers = <<>> /\ mpc = "idle" /\ snap = <<>> /\ results = <<>> /\ calcIdx = 0
  /\ gen = 0 /\ stable = <<>> /\ selSeen = <<>> /\ calcView = <<>> /\ preSweep = <<>>

CalcFixed == cmembers = <<>> /\ cop = "init" /\ lastCalc = <<"none", <<0, 0, 0>>>> /\ repeat = FALSE

SelFixed == selIn = <<>> /\ selT = 0 /\ selRaised = FALSE /\ selOut = 0 /\ selDone = FALSE

ApiFixed ==
  /\ apiPresent = FALSE /\ apiCfg = [fallback |-> FALSE, runThr |-> -1, waitThr |-> -1]
  /\ apiMembers = <<>> /\ apiReq = <<>> /\ apiResp = [status |-> 0, body |-> ""]
  /\ apiDone = FALSE

HotFixed ==
  /\ fExists = FALSE /\ fMtime = 0 /\ fContent = "v1" /\ hInit = FALSE
  /\ hLastM = -1 /\ hLastH = [alg |-> "none", of |-> "none"] /\ hCalls = 0
  /\ hRet = FALSE /\ hPrevInit = FALSE /\ hPrevM = -1
  /\ hPrevH = [alg |-> "none", of |-> "none"] /\ hCalled = FALSE

RegFixed ==
  /\ present = FALSE /\ rmembers = <<>> /\ fails = 0 /\ lastOp = "init"
  /\ lastEv = "none" /\ counted = FALSE /\ prevFails = 0 /\ failAfter = 0
  /\ seriousRun = 0 /\ selResult = "none" /\ oldMembers = <<>> /\ newList = <<>>

ApplyFixed ==
  /\ acfg = [host |-> "h1", pools |-> <<>>, eng |-> "vllm", metrics |-> "/metrics", pfi |-> 10, mfi |-> 5]
  /\ af5 = "h1" /\ aReg = {} /\ aFails = [k \in {"p", "q"} |-> 0]
  /\ aIter = <<>> /\ aIdx = 0 /\ aRpc = "idle" /\ aNew = acfg /\ aReloads = 0
  /\ aPreF5 = "h1" /\ aLast = "none"
  /\ aRestartP = FALSE /\ aRestartM = FALSE /\ aBadInput = FALSE

LoopFixed ==
  /\ lCfgP = 10 /\ lCfgM = 5 /\ ptPc = "done" /\ ptIdx = 0 /\ ptSleep = 0
  /\ ptCancel = FALSE /\ ptRestarted = FALSE /\ ptTarget = 0 /\ ptAborted = FALSE
  /\ mtPc = "done" /\ mtIdx = 0 /\ mtInt = 0 /\ mtCancel = FALSE
  /\ mtRestarted = FALSE /\ mtTarget = 0 /\ mtAborted = FALSE
  /\ rpc = "idle" /\ rNewP = 0 /\ rNewM = 0 /\ rCount = 0
  /\ ptOk = FALSE /\ mtOk = FALSE

NormFixed == nAlg = "min_max" /\ nIn = <<>> /\ nOut = <<>> /\ nDone = FALSE

DynFixed == dAlg = "s1_dynamic_waiting" /\ dW = <<>> /\ dM = 0 /\ dSt = 1 /\ dTp = 30
            /\ dIota = 0 /\ dF = <<>> /\ dEff = <<>> /\ dDone = FALSE

PoolCfgFixed == ccfg = <<>> /\ creg = {} /\ cfails = [k \in {"K", "L"} |-> 0] /\ cfpc = "idle"
                /\ cflist = <<>> /\ cfidx = 0 /\ creloads = 0 /\ cgone = {}

ScoreInit ==
  smembers \in [1..NumMembers -> [metrics : MetricsValues, score : {InitialScore}]]

\* a metrics sweep replaces one member's metrics dict (collect_pool_metrics)
ScoreScrape ==
  \E i \in 1..NumMembers, m \in MetricsValues :
    smembers' = [smembers EXCEPT ![i].metrics = m]

\* _calculate_single_pool_score -> calculate_pool_scores(pool, modes[0])
ScoreCalculate ==
  \E algo \in Algorithms, w \in WeightPairs :
    smembers' = CalculatePoolScores(smembers, algo, w)

ScoreNext == ScoreScrape \/ ScoreCalculate

ScoreSpecInit == ScoreInit /\ RegFixed /\ ClientFixed /\ SweepFixed /\ CalcFixed /\ SelFixed /\ ApiFixed /\ HotFixed /\ ApplyFixed /\ LoopFixed /\ NormFixed /\ DynFixed /\ PoolCfgFixed
ScoreSpecNext == ScoreNext /\ UNCHANGED <<regVars, clientVars, sweepVars, calcVars, selVars, apiVars, hotVars, applyVars, loopVars, normVars, dynVars, poolCfgVars>>
ScoreSpec == ScoreSpecInit /\ [][ScoreSpecNext]_vars

\* C1: after calculate_pool_scores returns, every member's score lies in [0, 1],
\* for every supported algorithm, including s1_ratio on raw waiting_queue values.
C1_ScoreInRange == \A i \in 1..NumMembers : 0 <= smembers[i].score /\ smembers[i].score <= 1000

\* ===================================================== membership fetch
\* bounds of the registry model
Keys == {"a", "b"}
EmptyMetrics == [src |-> "none", g |-> 0]     \* metrics dict {}
RMetrics == {EmptyMetrics, [src |-> "m1", g |-> 0]}
RScores == {InitialScore, 700}
MaxRun == 6

\* program constants
FailureThreshold == 5      \* failure_threshold = 5 in _fetch_all_pools

\* member lists the load balancer can return: distinct ip:port keys
NewLists == {<<>>} \cup {<<k>> : k \in Keys}
            \cup {<<p[1], p[2]>> : p \in {q \in Keys \X Keys : q[1] # q[2]}}

\* PoolMember(ip, port, partition): empty metrics, score 0.001
FreshMember(k) == [key |-> k, metrics |-> EmptyMetrics, score |-> InitialScore]

UpdateMembersSmartlyScoreOnly(old, new) ==
  LET oldKeys == {old[i].key : i \in 1..Len(old)}
      existing(k) == old[CHOOSE i \in 1..Len(old) : old[i].key = k]
  IN [i \in 1..Len(new) |->
        IF new[i] \in oldKeys
        THEN [key |-> new[i], metrics |-> EmptyMetrics, score |-> existing(new[i]).score]
        ELSE FreshMember(new[i])]

\* Pool.update_members_smartly: keep metrics and score of members whose
\* ip:port already exists, in the order of the new list
UpdateMembersSmartly(old, new) ==
  LET oldKeys == {old[i].key : i \in 1..Len(old)}
      existing(k) == old[CHOOSE i \in 1..Len(old) :
                           old[i].key = k /\ \A j \in 1..Len(old) : old[j].key = k => j <= i]
  IN [i \in 1..Len(new) |->
        IF new[i] \in oldKeys
        THEN [key |-> new[i], metrics |-> existing(new[i]).metrics,
              score |-> existing(new[i]).score]
        ELSE FreshMember(new[i])]

\* Outcomes of F5Client.get_pool_members (and the EngineType conversion in
\* _fetch_all_pools) as raw events at the load balancer.
\*   "ok"                    GET 200 with an item list
\*   [http, s]               GET returns status s (not 200/401)
\*   [retry, s]              GET returns 401, re-login succeeds, retry returns s
\*   [retry_login, s]        GET returns 401, the re-login gets HTTP s
\*   "net_reset"             aiohttp.ClientError (connection reset, DNS) on the GET
\*   "timeout"               asyncio.TimeoutError on the GET
\*   [login, s]              ensure_valid_token: login (and its fallback) gets HTTP s
\*   "login_no_token"        login response without a token
\*   "login_net"             aiohttp.ClientError on the login request
\*   "login_timeout"         asyncio.TimeoutError on the login request
\*   "parse_error"           unexpected exception while reading the response
\*   "bad_engine_type"       EngineType(pool_config.engine_type) raises ValueError
HttpStatuses == {400, 403, 404, 500, 502, 503, 504}
RetryStatuses == {401, 403, 404, 500, 504}
LoginStatuses == {400, 401, 500}
\* Status numbers a free text in an exception message may contain (0: none):
\* the response body of a retried GET (error_text), str(e) of an
\* aiohttp.ClientError on the GET or on the login, str(e) of an unexpected
\* exception.  Other messages are fixed.
TextCodes == {0, 401, 404, 500}
FetchFailures ==
  [kind : {"http"}, status : HttpStatuses, txt : {0}]
  \cup [kind : {"retry"}, status : RetryStatuses, txt : TextCodes]
  \cup [kind : {"retry_login"}, status : LoginStatuses, txt : {0}]
  \cup [kind : {"login"}, status : LoginStatuses, txt : {0}]
  \cup [kind : {"net_reset", "login_net", "parse_error"}, status : {0}, txt : TextCodes]
  \cup [kind : {"timeout", "login_no_token", "login_timeout", "bad_engine_type"},
         status : {0}, txt : {0}]

\* The exception that reaches _analyze_fetch_failure: its class and the
\* status numbers its message contains.
\*  - inside get_pool_members' try every exception is re-raised as
\*    F5ApiError(f"... {e}") (aiohttp.ClientError and Exception handlers);
\*  - login re-raises any failure as TokenAuthenticationError(f"Login failed: {e}"),
\*    a ClientError as F5ApiError("Login network error"); ensure_valid_token
\*    retries login once in its except branch and lets that failure escape.
Exc(cls, codes) == [cls |-> cls, codes |-> codes, timeout |-> FALSE]
\* status numbers in the free text of ev's message
TextOf(ev) == IF ev.txt = 0 THEN {} ELSE {ev.txt}
RaisedException(ev) ==
  CASE ev.kind = "http"            -> Exc("F5ApiError", {ev.status})
    [] ev.kind = "retry"           -> Exc("F5ApiError", {ev.status} \cup TextOf(ev))
    [] ev.kind = "retry_login"     -> Exc("F5ApiError", {ev.status})
    [] ev.kind = "net_reset"       -> Exc("F5ApiError", TextOf(ev))
    [] ev.kind = "timeout"         -> Exc("F5ApiError", {})
    [] ev.kind = "parse_error"     -> Exc("F5ApiError", TextOf(ev))
    [] ev.kind = "login"           -> Exc("TokenAuthenticationError", {ev.status})
    [] ev.kind = "login_no_token"  -> Exc("TokenAuthenticationError", {})
    [] ev.kind = "login_timeout"   -> Exc("TokenAuthenticationError", {})
    [] ev.kind = "login_net"       -> Exc("F5ApiError", TextOf(ev))
    [] ev.kind = "bad_engine_type" -> Exc("ValueError", {})

\* SchedulerApp._analyze_fetch_failure: should_count_failure
\* (TokenAuthenticationError is a subclass of F5ApiError)
IsF5ApiError(e) == e.cls \in {"F5ApiError", "TokenAuthenticationError"}
AnalyzeFetchFailure(e) ==
  IF e.cls = "ClientError" THEN e.timeout
  ELSE IF IsF5ApiError(e)
       THEN IF 404 \in e.codes THEN TRUE
            ELSE IF 401 \in e.codes \/ 403 \in e.codes THEN FALSE
            ELSE IF 500 \in e.codes \/ 502 \in e.codes \/ 503 \in e.codes THEN FALSE
            ELSE TRUE
  ELSE IF e.cls = "TokenAuthenticationError" THEN FALSE
  ELSE TRUE

RegInit ==
  /\ present = FALSE /\ rmembers = <<>> /\ fails = 0 /\ lastOp = "init"
  /\ lastEv = "none" /\ counted = FALSE /\ prevFails = 0 /\ failAfter = 0
  /\ seriousRun = 0 /\ selResult = "none" /\ oldMembers = <<>> /\ newList = <<>>

FetchSuccessNoReset ==
  \E N \in NewLists :
    /\ IF present
       THEN /\ rmembers' = UpdateMembersSmartly(rmembers, N)
            /\ UNCHANGED fails
       ELSE /\ rmembers' = [i \in 1..Len(N) |-> FreshMember(N[i])]
            /\ fails' = 0
    /\ present' = TRUE
    /\ lastOp' = "success" /\ lastEv' = "ok" /\ counted' = FALSE
    /\ prevFails' = fails /\ failAfter' = 0 /\ seriousRun' = 0
    /\ oldMembers' = rmembers /\ newList' = N
    /\ selResult' = "none"

\* _fetch_all_pools, successful get_pool_members for the pool
FetchSuccess ==
  \E N \in NewLists :
    /\ IF present
       THEN /\ rmembers' = UpdateMembersSmartly(rmembers, N)
            /\ fails' = 0
       ELSE /\ rmembers' = [i \in 1..Len(N) |-> FreshMember(N[i])]
            /\ fails' = 0
    /\ present' = TRUE
    /\ lastOp' = "success" /\ lastEv' = "ok" /\ counted' = FALSE
    /\ prevFails' = fails /\ failAfter' = 0 /\ seriousRun' = 0
    /\ oldMembers' = rmembers /\ newList' = N
    /\ selResult' = "none"

\* existing_pool._consecutive_failures >= failure_threshold
ReachedThresholdStrict(n) == n > FailureThreshold
ReachedThreshold(n) == n >= FailureThreshold

\* _fetch_all_pools, exception branch
FetchFailure ==
  \E ev \in FetchFailures :
    LET count == AnalyzeFetchFailure(RaisedException(ev)) IN
    /\ IF count /\ present
       THEN /\ fails' = fails + 1
            /\ failAfter' = fails + 1
            /\ IF ReachedThreshold(fails + 1)
               THEN present' = FALSE /\ rmembers' = <<>>
               ELSE UNCHANGED <<present, rmembers>>
       ELSE /\ UNCHANGED <<present, rmembers, fails>>
            /\ failAfter' = IF present THEN fails ELSE -1
    /\ lastOp' = "failure" /\ lastEv' = ev /\ counted' = count
    /\ prevFails' = fails
    /\ seriousRun' = IF count THEN Min(seriousRun + 1, MaxRun) ELSE seriousRun
    /\ selResult' = "none" /\ oldMembers' = <<>> /\ newList' = <<>>

\* _collect_single_pool_metrics: a sweep stores metrics and a new score
RegSweep ==
  /\ present /\ rmembers # <<>>
  /\ \E i \in 1..Len(rmembers), m \in RMetrics, sc \in RScores :
       rmembers' = [rmembers EXCEPT ![i] = [@ EXCEPT !.metrics = m, !.score = sc]]
  /\ lastOp' = "sweep" /\ lastEv' = "none" /\ counted' = FALSE
  /\ prevFails' = 0 /\ failAfter' = 0 /\ selResult' = "none"
  /\ oldMembers' = <<>> /\ newList' = <<>>
  /\ UNCHANGED <<present, fails, seriousRun>>

\* Scheduler._do_select_optimal_member with every member as candidate
RegSelect ==
  /\ IF ~present THEN selResult' = "none"
     ELSE LET valid == {i \in 1..Len(rmembers) : rmembers[i].score > 0} IN
          IF valid = {} THEN selResult' = "none"
          ELSE \E i \in valid : selResult' = rmembers[i].key
  /\ lastOp' = "select" /\ lastEv' = "none" /\ counted' = FALSE
  /\ prevFails' = 0 /\ failAfter' = 0
  /\ oldMembers' = <<>> /\ newList' = <<>>
  /\ UNCHANGED <<present, rmembers, fails, seriousRun>>

RegNext == FetchSuccess \/ FetchFailure \/ RegSweep \/ RegSelect

RegSpecInit == RegInit /\ smembers = <<>> /\ ClientFixed /\ SweepFixed /\ CalcFixed /\ SelFixed /\ ApiFixed /\ HotFixed /\ ApplyFixed /\ LoopFixed /\ NormFixed /\ DynFixed /\ PoolCfgFixed
RegSpecNext == RegNext /\ UNCHANGED <<smembers, clientVars, sweepVars, calcVars, selVars, apiVars, hotVars, applyVars, loopVars, normVars, dynVars, poolCfgVars>>
RegSpec == RegSpecInit /\ [][RegSpecNext]_vars


\* C2: a successful fetch with list N leaves pool.members in N's order, one
\* record per element; members already present keep metrics and score, new
\* ones get empty metrics and the initial score 0.001.
InOld(k) == \E j \in 1..Len(oldMembers) : oldMembers[j].key = k
OldRec(k) == oldMembers[CHOOSE j \in 1..Len(oldMembers) : oldMembers[j].key = k]
C2_ReconcilePreserves ==
  lastOp = "success" =>
    /\ Len(rmembers) = Len(newList)
    /\ \A i \in 1..Len(newList) :
         /\ rmembers[i].key = newList[i]
         /\ InOld(newList[i]) => /\ rmembers[i].metrics = OldRec(newList[i]).metrics
                                 /\ rmembers[i].score = OldRec(newList[i]).score
         /\ ~InOld(newList[i]) => /\ rmembers[i].metrics = EmptyMetrics
                                  /\ rmembers[i].score = InitialScore

C2_Witness ==
  /\ lastOp = "success"
  /\ \E i \in 1..Len(newList) : InOld(newList[i]) /\ OldRec(newList[i]).metrics # EmptyMetrics
                                /\ OldRec(newList[i]).score = 700
  /\ \E i \in 1..Len(newList) : ~InOld(newList[i])

\* C3: immediately after a successful fetch, existing or new pool, the pool's
\* consecutive_failures counter is 0.
C3_ResetOnSuccess == lastOp = "success" => (present /\ fails = 0)

C3_Witness == lastOp = "success" /\ prevFails > 0 /\ oldMembers # <<>>

\* C4: after 5 serious failures with no success in between the pool is absent
\* from the registry, and every selection for it returns "none".
C4_RemovedAfterThreshold ==
  seriousRun >= FailureThreshold =>
    /\ ~present
    /\ (lastOp = "select" => selResult = "none")

C4_Witness == seriousRun >= FailureThreshold /\ lastOp = "select"

\* Failure classes named by the claims on failure classification (by kind
\* and status, whatever the free text of the message).
EvClass(ev) == [kind |-> ev.kind, status |-> ev.status]
TransientEvents ==
  {[kind |-> "net_reset", status |-> 0], [kind |-> "login_net", status |-> 0],
   [kind |-> "login_no_token", status |-> 0]}
  \cup {[kind |-> "http", status |-> s] : s \in {403, 500, 502, 503, 504}}
  \cup {[kind |-> "retry", status |-> s] : s \in {401, 403, 500, 504}}
  \cup {[kind |-> "retry_login", status |-> s] : s \in LoginStatuses}
  \cup {[kind |-> "login", status |-> s] : s \in LoginStatuses}
SeriousEvents ==
  {[kind |-> "timeout", status |-> 0], [kind |-> "login_timeout", status |-> 0],
   [kind |-> "parse_error", status |-> 0], [kind |-> "bad_engine_type", status |-> 0],
   [kind |-> "http", status |-> 404], [kind |-> "http", status |-> 400],
   [kind |-> "retry", status |-> 404]}

\* C5: a failure in a transient class (network error other than timeout, HTTP
\* 401/403, any 5xx, token/authentication exception) never increments
\* consecutive_failures.
C5_TransientNotCounted ==
  (lastOp = "failure" /\ EvClass(lastEv) \in TransientEvents /\ failAfter # -1)
    => failAfter = prevFails

\* C6: a failure in a serious class (timeout, 404, other API error, unknown
\* exception) increments consecutive_failures by exactly 1.
C6_SeriousCounted ==
  (lastOp = "failure" /\ EvClass(lastEv) \in SeriousEvents /\ failAfter # -1)
    => failAfter = prevFails + 1

\* ============================================================ F5 client
\* bounds of the client model
Procs == {1, 2}            \* concurrent callers of get_pool_members on one client
MaxTokens == 4             \* token ids available to logins
GetStatuses == {200, 401, 404, 500}
RetryGetStatuses == {200, 401, 500}

LoginStates == {"login_locked", "login_fallback", "login_401"}

TokensInUse == {cur} \cup {tok[p] : p \in Procs}
               \cup UNION {{reqs[p][i] : i \in DOMAIN reqs[p]} : p \in Procs}
FreshTokens == (1..MaxTokens) \ TokensInUse

ClientInit ==
  /\ cur = 0 /\ curExpired = FALSE /\ lockHolder = 0
  /\ cpc = [p \in Procs |-> "idle"] /\ tok = [p \in Procs |-> 0]
  /\ reqs = [p \in Procs |-> <<>>] /\ got401 = [p \in Procs |-> FALSE]
  /\ logins401 = [p \in Procs |-> 0] /\ retryStatus = [p \in Procs |-> 0]
  /\ result = [p \in Procs |-> "none"]

\* get_pool_members is called: ensure_valid_token starts
CallGetPoolMembers(p) ==
  /\ cpc[p] = "idle"
  /\ cpc' = [cpc EXCEPT ![p] = "acquire"]
  /\ tok' = [tok EXCEPT ![p] = 0]
  /\ reqs' = [reqs EXCEPT ![p] = <<>>]
  /\ got401' = [got401 EXCEPT ![p] = FALSE]
  /\ logins401' = [logins401 EXCEPT ![p] = 0]
  /\ retryStatus' = [retryStatus EXCEPT ![p] = 0]
  /\ result' = [result EXCEPT ![p] = "none"]
  /\ UNCHANGED <<cur, curExpired, lockHolder>>

\* ensure_valid_token: async with self._token_lock, then check the cache;
\* a cached unexpired token is returned and the member GET is sent with it
EnsureValidToken(p) ==
  /\ cpc[p] = "acquire" /\ lockHolder = 0
  /\ IF cur # 0 /\ ~curExpired
     THEN /\ tok' = [tok EXCEPT ![p] = cur]
          /\ reqs' = [reqs EXCEPT ![p] = Append(@, cur)]
          /\ cpc' = [cpc EXCEPT ![p] = "get"]
          /\ UNCHANGED lockHolder
     ELSE /\ lockHolder' = p
          /\ cpc' = [cpc EXCEPT ![p] = IF cur # 0 THEN "delete_locked" ELSE "login_locked"]
          /\ UNCHANGED <<tok, reqs>>
  /\ UNCHANGED <<cur, curExpired, got401, logins401, retryStatus, result>>

\* await self.delete_token(self.current_token); self.current_token = None
DeleteExpiredToken(p) ==
  /\ cpc[p] = "delete_locked"
  /\ cur' = 0
  /\ cpc' = [cpc EXCEPT ![p] = "login_locked"]
  /\ UNCHANGED <<curExpired, lockHolder, tok, reqs, got401, logins401, retryStatus, result>>

\* return await self.login() under the lock; a failure leaves the lock and
\* enters the except branch: current_token = None; return await self.login()
LoginLocked(p) ==
  /\ cpc[p] = "login_locked"
  /\ lockHolder' = 0
  /\ \/ \E t \in FreshTokens :
          /\ cur' = t /\ curExpired' = FALSE
          /\ tok' = [tok EXCEPT ![p] = t]
          /\ reqs' = [reqs EXCEPT ![p] = Append(@, t)]
          /\ cpc' = [cpc EXCEPT ![p] = "get"]
     \/ /\ cur' = 0
        /\ cpc' = [cpc EXCEPT ![p] = "login_fallback"]
        /\ UNCHANGED <<curExpired, tok, reqs>>
  /\ UNCHANGED <<got401, logins401, retryStatus, result>>

\* the login of ensure_valid_token's except branch, outside the lock
LoginFallback(p) ==
  /\ cpc[p] = "login_fallback"
  /\ \/ \E t \in FreshTokens :
          /\ cur' = t /\ curExpired' = FALSE
          /\ tok' = [tok EXCEPT ![p] = t]
          /\ reqs' = [reqs EXCEPT ![p] = Append(@, t)]
          /\ cpc' = [cpc EXCEPT ![p] = "get"]
          /\ UNCHANGED result
     \/ /\ cpc' = [cpc EXCEPT ![p] = "idle"]
        /\ result' = [result EXCEPT ![p] = "fail"]
        /\ UNCHANGED <<cur, curExpired, tok, reqs>>
  /\ UNCHANGED <<lockHolder, got401, logins401, retryStatus>>

\* response of the member GET
GetResponse(p) ==
  /\ cpc[p] = "get"
  /\ \E st \in GetStatuses :
       IF st = 401
       THEN /\ cpc' = [cpc EXCEPT ![p] = "delete_401"]
            /\ got401' = [got401 EXCEPT ![p] = TRUE]
            /\ UNCHANGED result
       ELSE /\ cpc' = [cpc EXCEPT ![p] = "idle"]
            /\ result' = [result EXCEPT ![p] = IF st = 200 THEN "ok" ELSE "fail"]
            /\ UNCHANGED got401
  /\ UNCHANGED <<cur, curExpired, lockHolder, tok, reqs, logins401, retryStatus>>

\* status 401: await self.delete_token(token); self.current_token = None
DeleteRejectedToken(p) ==
  /\ cpc[p] = "delete_401"
  /\ cur' = 0
  /\ cpc' = [cpc EXCEPT ![p] = "login_401"]
  /\ UNCHANGED <<curExpired, lockHolder, tok, reqs, got401, logins401, retryStatus, result>>

Relogin401StaleToken(p) ==
  /\ cpc[p] = "login_401"
  /\ logins401' = [logins401 EXCEPT ![p] = @ + 1]
  /\ \/ \E t \in FreshTokens :
          /\ cur' = t /\ curExpired' = FALSE
          /\ reqs' = [reqs EXCEPT ![p] = Append(@, tok[p])]
          /\ cpc' = [cpc EXCEPT ![p] = "retry"]
          /\ UNCHANGED <<tok, result>>
     \/ /\ cpc' = [cpc EXCEPT ![p] = "idle"]
        /\ result' = [result EXCEPT ![p] = "fail"]
        /\ UNCHANGED <<cur, curExpired, tok, reqs>>
  /\ UNCHANGED <<lockHolder, got401, retryStatus>>

\* token = await self.login(), then the retry GET with the new token
Relogin401(p) ==
  /\ cpc[p] = "login_401"
  /\ logins401' = [logins401 EXCEPT ![p] = @ + 1]
  /\ \/ \E t \in FreshTokens :
          /\ cur' = t /\ curExpired' = FALSE
          /\ tok' = [tok EXCEPT ![p] = t]
          /\ reqs' = [reqs EXCEPT ![p] = Append(@, t)]
          /\ cpc' = [cpc EXCEPT ![p] = "retry"]
          /\ UNCHANGED result
     \/ /\ cpc' = [cpc EXCEPT ![p] = "idle"]
        /\ result' = [result EXCEPT ![p] = "fail"]
        /\ UNCHANGED <<cur, curExpired, tok, reqs>>
  /\ UNCHANGED <<lockHolder, got401, retryStatus>>

\* retry_response: not 200 raises F5ApiError
RetryResponse(p) ==
  /\ cpc[p] = "retry"
  /\ \E st \in RetryGetStatuses :
       /\ retryStatus' = [retryStatus EXCEPT ![p] = st]
       /\ result' = [result EXCEPT ![p] = IF st = 200 THEN "ok" ELSE "fail"]
  /\ cpc' = [cpc EXCEPT ![p] = "idle"]
  /\ UNCHANGED <<cur, curExpired, lockHolder, tok, reqs, got401, logins401>>

\* time passes the cached token's expiration_time
TokenExpires ==
  /\ cur # 0 /\ ~curExpired
  /\ curExpired' = TRUE
  /\ UNCHANGED <<cur, lockHolder, cpc, tok, reqs, got401, logins401, retryStatus, result>>

ClientNext ==
  \/ \E p \in Procs :
       \/ CallGetPoolMembers(p) \/ EnsureValidToken(p) \/ DeleteExpiredToken(p)
       \/ LoginLocked(p) \/ LoginFallback(p) \/ GetResponse(p)
       \/ DeleteRejectedToken(p) \/ Relogin401(p) \/ RetryResponse(p)
  \/ TokenExpires

ClientSpecInit == ClientInit /\ RegFixed /\ smembers = <<>> /\ SweepFixed /\ CalcFixed /\ SelFixed /\ ApiFixed /\ HotFixed /\ ApplyFixed /\ LoopFixed /\ NormFixed /\ DynFixed /\ PoolCfgFixed
ClientSpecNext == ClientNext /\ UNCHANGED <<smembers, regVars, sweepVars, calcVars, selVars, apiVars, hotVars, applyVars, loopVars, normVars, dynVars, poolCfgVars>>
ClientSpec == ClientSpecInit /\ [][ClientSpecNext]_vars

\* C7: per F5Client, at most one login is in progress in every reachable state.
C7_SingleLogin == Cardinality({p \in Procs : cpc[p] \in LoginStates}) <= 1

\* C8: on a 401 the client drops the token, logs in once and retries once with
\* the new token; a retry that is not 200 fails the fetch.
C8_RetryOnceWithNewToken ==
  \A p \in Procs :
    /\ Len(reqs[p]) <= 2
    /\ logins401[p] <= 1
    /\ Len(reqs[p]) = 2 => (got401[p] /\ reqs[p][2] # reqs[p][1])
    /\ (got401[p] /\ cpc[p] = "idle") => logins401[p] = 1
    /\ retryStatus[p] \notin {0, 200} => result[p] = "fail"

C8_Witness ==
  \E p \in Procs : got401[p] /\ cpc[p] = "idle" /\ retryStatus[p] \notin {0, 200}

\* ====================================================== metrics sweep
\* The scheduler runs on one asyncio loop: a task is only interleaved with
\* others at an await. collect_pool_metrics awaits asyncio.gather of the
\* member scrapes; the write-back loop and calculate_pool_scores that follow
\* contain no await, nor does the selection handler's body.
MaxGen == 2                \* metrics sweeps explored

\* a scrape result: metrics parsed from member `src` in sweep `g`, or {} on failure
Pending == [st |-> "pending", src |-> "none", g |-> 0]
ScrapeResults(k, n) == {[st |-> "empty", src |-> "none", g |-> 0], [st |-> "ok", src |-> k, g |-> n]}
AsMetrics(r) == IF r.st = "ok" THEN [src |-> r.src, g |-> r.g] ELSE EmptyMetrics

\* the score calculate_pool_scores gives in sweep n
CalcScore(n) == 100 * (n + 1)

\* no synchronous section of the metrics task holds the event loop
LoopFree == mpc # "calc"

SweepInit ==
  /\ \E N \in NewLists \ {<<>>} :
       /\ pmembers = [i \in 1..Len(N) |-> FreshMember(N[i])]
       /\ stable = pmembers
  /\ mpc = "idle" /\ snap = <<>> /\ results = <<>> /\ calcIdx = 0 /\ gen = 0
  /\ selSeen = <<>> /\ calcView = <<>> /\ preSweep = <<>>

\* _collect_single_pool_metrics -> collect_pool_metrics: one scrape task per
\* member of pool.members, then await asyncio.gather
SweepStart ==
  /\ LoopFree /\ mpc = "idle" /\ gen < MaxGen /\ pmembers # <<>>
  /\ mpc' = "scraping"
  /\ snap' = [i \in 1..Len(pmembers) |-> pmembers[i].key]
  /\ results' = [i \in 1..Len(pmembers) |-> Pending]
  /\ gen' = gen + 1
  /\ preSweep' = pmembers
  /\ UNCHANGED <<pmembers, calcIdx, stable, selSeen, calcView>>

\* collect_member_metrics for the i-th task completes
ScrapeDone ==
  /\ LoopFree /\ mpc = "scraping"
  /\ \E i \in 1..Len(results) :
       /\ results[i] = Pending
       /\ \E r \in ScrapeResults(snap[i], gen) : results' = [results EXCEPT ![i] = r]
  /\ UNCHANGED <<pmembers, mpc, snap, calcIdx, gen, stable, selSeen, calcView, preSweep>>

\* gather returns: for member, result in zip(pool.members, results):
\* member.metrics = result; then _calculate_single_pool_score starts
GatherDone ==
  /\ LoopFree /\ mpc = "scraping"
  /\ \A i \in 1..Len(results) : results[i] # Pending
  /\ LET written == [i \in 1..Len(pmembers) |->
                      IF i <= Len(results)
                      THEN [pmembers[i] EXCEPT !.metrics = AsMetrics(results[i])]
                      ELSE pmembers[i]]
     IN /\ pmembers' = written
        /\ calcView' = written
  /\ mpc' = "calc" /\ calcIdx' = 1
  /\ UNCHANGED <<snap, results, gen, stable, selSeen, preSweep>>

\* calculate_pool_scores: member loop; a member without metrics keeps its score
CalcStep ==
  /\ mpc = "calc"
  /\ IF calcIdx <= Len(pmembers)
     THEN /\ pmembers' = [pmembers EXCEPT ![calcIdx] =
                            IF @.metrics = EmptyMetrics THEN @ ELSE [@ EXCEPT !.score = CalcScore(gen)]]
          /\ calcIdx' = calcIdx + 1
          /\ UNCHANGED <<mpc, stable>>
     ELSE /\ mpc' = "idle" /\ calcIdx' = 0
          /\ stable' = pmembers
          /\ UNCHANGED pmembers
  /\ UNCHANGED <<snap, results, gen, selSeen, calcView, preSweep>>

\* _fetch_all_pools success on the existing pool: update_members_smartly
SweepMembershipUpdate ==
  /\ LoopFree
  /\ \E N \in NewLists \ {<<>>} :
       /\ pmembers' = UpdateMembersSmartly(pmembers, N)
       /\ stable' = pmembers'
  /\ UNCHANGED <<mpc, snap, results, calcIdx, gen, selSeen, calcView, preSweep>>

SelectOffLoop ==
  /\ selSeen' = pmembers
  /\ UNCHANGED <<pmembers, mpc, snap, results, calcIdx, gen, stable, calcView, preSweep>>

\* Scheduler._do_select_optimal_member: intersection of pool.members with the
\* candidates and the weighted choice on their scores, in one loop turn
Select ==
  /\ LoopFree
  /\ selSeen' = pmembers
  /\ UNCHANGED <<pmembers, mpc, snap, results, calcIdx, gen, stable, calcView, preSweep>>

SweepNext == SweepStart \/ ScrapeDone \/ GatherDone \/ CalcStep
             \/ SweepMembershipUpdate \/ Select

SweepSpecInit == SweepInit /\ smembers = <<>> /\ RegFixed /\ ClientFixed /\ CalcFixed /\ SelFixed /\ ApiFixed /\ HotFixed /\ ApplyFixed /\ LoopFixed /\ NormFixed /\ DynFixed /\ PoolCfgFixed
SweepSpecNext == SweepNext /\ UNCHANGED <<smembers, regVars, clientVars, calcVars, selVars, apiVars, hotVars, applyVars, loopVars, normVars, dynVars, poolCfgVars>>
SweepSpec == SweepSpecInit /\ [][SweepSpecNext]_vars

\* C9: score recomputation for the pool starts only after the scrape result of
\* every member has been written to that member's metrics.
C9_ResultsWrittenBeforeCalc ==
  mpc = "calc" =>
    /\ \A i \in 1..Len(results) : results[i] # Pending
    /\ \A i \in 1..Len(snap), j \in 1..Len(calcView) :
         calcView[j].key = snap[i] => calcView[j].metrics = AsMetrics(results[i])

\* C10: a selection observes either the complete member list and scores
\* before an update of the pool or the complete list and scores after it.
C10_SelectionSeesSnapshot == [][selSeen' # selSeen => selSeen' = stable]_vars

C10_Witness ==
  /\ mpc = "scraping" /\ gen = MaxGen
  /\ \E i \in 1..Len(selSeen) : selSeen[i].score = CalcScore(1)

\* C11: when the score calculation of a sweep finishes, a member whose scrape
\* in this sweep failed (non-200, network error, timeout or empty parse) has
\* empty metrics and the score it had when the sweep started.
ScrapeFailedIn(k) == \E i \in 1..Len(snap) : snap[i] = k /\ results[i].st = "empty"
PreScore(k) == CHOOSE s \in {preSweep[i].score : i \in {j \in 1..Len(preSweep) : preSweep[j].key = k}} : TRUE
C11_FailedScrapeKeepsScore ==
  [][(mpc = "calc" /\ mpc' = "idle") =>
       \A j \in 1..Len(pmembers') :
         ScrapeFailedIn(pmembers'[j].key) =>
           /\ pmembers'[j].metrics = EmptyMetrics
           /\ pmembers'[j].score = PreScore(pmembers'[j].key)]_vars

\* C27: even when a membership update interleaves with a sweep of the pool,
\* every member's metrics are empty, its previous metrics, or the result of
\* scraping that member's own (ip, port); never another endpoint's result.
C27_OwnEndpointMetrics ==
  \A j \in 1..Len(pmembers) :
    pmembers[j].metrics = EmptyMetrics \/ pmembers[j].metrics.src = pmembers[j].key

\* ============================================ score calculator, all keys
\* a metrics key absent from member.metrics
Missing == -1
CMetricsValues == [wq : {Missing, 0, 2}, cu : {60}, rr : {Missing, 3}] \cup {[wq |-> 0, cu |-> Missing, rr |-> 3]}
CalcAlgorithms == {"s1", "s1_ratio", "s2"}
\* ModeConfig (w_a, w_b, w_g) in tenths
WeightTriples == {<<4, 3, 3>>}
NoCalc == <<"none", <<0, 0, 0>>>>

RequiredKeysPresentS1Only(m, algo) == m.wq # Missing /\ m.cu # Missing

\* the member loop of each _calculate_*_scores: skip a member whose metrics dict
\* is empty or lacks waiting_queue, cache_usage (and running_req for s2)
RequiredKeysPresent(m, algo) ==
  /\ m.wq # Missing /\ m.cu # Missing
  /\ (algo = "s2" => m.rr # Missing)

ApplyScoreSmoothed(old, new) == (old + new) \div 2

\* member.score = new_score
ApplyScore(old, new) == new

\* _calculate_s1_scores, _calculate_s1_ratio_scores and _calculate_s2_scores
\* on the valid members, in pool order; the other members are left alone
CScores(ms, algo, w) ==
  LET idx == SortedIdx({i \in 1..Len(ms) : RequiredKeysPresent(ms[i].metrics, algo)})
      wq  == [k \in 1..Len(idx) |-> ms[idx[k]].metrics.wq]
      cu  == [k \in 1..Len(idx) |-> ms[idx[k]].metrics.cu]
      rr  == [k \in 1..Len(idx) |-> ms[idx[k]].metrics.rr]
      nw  == MinMaxNormalize(wq)
      nc  == RatioBasedNormalize(cu)
      nr  == MinMaxNormalize(rr)
      sc(k) == CASE algo = "s1" ->
                      Clamp((w[1] * (1000 - nw[k])) \div 10 + w[2] * (100 - cu[k]))
                 [] algo = "s1_ratio" ->
                      w[1] * 100 * (1 - wq[k]) + (w[2] * (1000 - nc[k])) \div 10
                 [] algo = "s2" ->
                      Clamp((w[1] * (1000 - nw[k])) \div 10 + w[2] * (100 - cu[k])
                            + (w[3] * (1000 - nr[k])) \div 10)
  IN IF idx = <<>> THEN ms
     ELSE [i \in 1..Len(ms) |->
             IF \E k \in 1..Len(idx) : idx[k] = i
             THEN LET k == CHOOSE k \in 1..Len(idx) : idx[k] = i
                  IN [ms[i] EXCEPT !.score = ApplyScore(@, sc(k))]
             ELSE ms[i]]

CalcInit ==
  /\ cmembers \in [1..NumMembers -> [metrics : CMetricsValues, score : {InitialScore}]]
  /\ cop = "init" /\ lastCalc = NoCalc /\ repeat = FALSE

\* collect_pool_metrics writes a member's parsed metrics dict
CalcScrape ==
  /\ \E i \in 1..NumMembers, m \in CMetricsValues :
       cmembers' = [cmembers EXCEPT ![i].metrics = m]
  /\ cop' = "scrape" /\ lastCalc' = NoCalc /\ repeat' = FALSE

\* ScoreCalculator.calculate_pool_scores(pool, mode_config)
CalcRun ==
  /\ \E algo \in CalcAlgorithms, w \in WeightTriples :
       /\ cmembers' = CScores(cmembers, algo, w)
       /\ repeat' = (cop = "calc" /\ lastCalc = <<algo, w>>)
       /\ lastCalc' = <<algo, w>>
  /\ cop' = "calc"

CalcNext == CalcScrape \/ CalcRun

CalcSpecInit == CalcInit /\ smembers = <<>> /\ RegFixed /\ ClientFixed /\ SweepFixed /\ SelFixed /\ ApiFixed /\ HotFixed /\ ApplyFixed /\ LoopFixed /\ NormFixed /\ DynFixed /\ PoolCfgFixed
CalcSpecNext == CalcNext /\ UNCHANGED <<smembers, regVars, clientVars, sweepVars, selVars, apiVars, hotVars, applyVars, loopVars, normVars, dynVars, poolCfgVars>>
CalcSpec == CalcSpecInit /\ [][CalcSpecNext]_vars

\* C12: for every algorithm, a member whose metrics lack a key the algorithm
\* requires (waiting_queue and cache_usage; also running_req for s2) has the
\* same score after calculate_pool_scores as before it.
LacksRequiredKey(m, algo) ==
  \/ m.wq = Missing \/ m.cu = Missing
  \/ (algo \in {"s2"} /\ m.rr = Missing)
C12_MissingKeyKeepsScore ==
  [][cop' = "calc" =>
       \A i \in 1..NumMembers :
         LacksRequiredKey(cmembers[i].metrics, lastCalc'[1]) =>
           cmembers'[i].score = cmembers[i].score]_vars

C12_Witness ==
  /\ cop = "calc" /\ lastCalc[1] = "s2"
  /\ \E i \in 1..NumMembers :
       /\ cmembers[i].metrics.wq # Missing /\ cmembers[i].metrics.cu # Missing
       /\ cmembers[i].metrics.rr = Missing
       /\ cmembers[i].score # InitialScore

\* C13: for every algorithm, calling calculate_pool_scores a second time in a
\* row with no change to any member's metrics leaves every member's score equal
\* to its score after the first call.
C13_RecalcIdempotent ==
  [][repeat' => \A i \in 1..NumMembers : cmembers'[i].score = cmembers[i].score]_vars

C13_Witness ==
  /\ repeat
  /\ \E i \in 1..NumMembers : cmembers[i].score # InitialScore

\* ================================================ weighted random selection
MaxSel == 3
\* member scores (any unit: the walk only compares sums)
SelScores == {-1, 0, 2, 3}

RECURSIVE SeqSum(_)
SeqSum(s) == IF s = <<>> THEN 0 ELSE Head(s) + SeqSum(Tail(s))

\* C_k = s_1 + ... + s_k
Cum(ws, k) == SeqSum(SubSeq(ws, 1, k))

IsValidNonNeg(score) == score >= 0

\* m.score > 0
IsValid(score) == score > 0

\* valid_members = [m for m in members if m.score > 0], as positions
ValidPositions(in) == SortedIdx({i \in 1..Len(in) : IsValid(in[i])})

WalkChoiceClosed(ws, t) ==
  LET n == Len(ws)
      hit(i) == IF i = n THEN t <= Cum(ws, i)
                ELSE Cum(ws, i - 1) <= t /\ t <= Cum(ws, i)
      H == {i \in 1..n : hit(i)}
  IN IF H = {} THEN n ELSE CHOOSE i \in H : \A j \in H : i <= j

\* _weighted_random_choice: first i with interval_start <= t < interval_end,
\* the last member with t <= interval_end, members[-1] if none matched
WalkChoice(ws, t) ==
  LET n == Len(ws)
      hit(i) == IF i = n THEN t <= Cum(ws, i)
                ELSE Cum(ws, i - 1) <= t /\ t < Cum(ws, i)
      H == {i \in 1..n : hit(i)}
  IN IF H = {} THEN n ELSE CHOOSE i \in H : \A j \in H : i <= j

SelectorInit ==
  /\ selIn \in UNION {[1..n -> SelScores] : n \in 0..MaxSel}
  /\ selT = 0 /\ selRaised = FALSE /\ selOut = 0 /\ selDone = FALSE

\* WeightedRandomSelector.select(members); inside the try block the weighted
\* choice either returns or raises
SelectorSelect ==
  /\ ~selDone
  /\ LET vp == ValidPositions(selIn)
         n  == Len(vp)
         vs == [k \in 1..n |-> selIn[vp[k]]]
     IN IF n = 0
        THEN selOut' = 0 /\ selT' = 0 /\ selRaised' = FALSE
        ELSE IF n = 1
        THEN selOut' = vp[1] /\ selT' = 0 /\ selRaised' = FALSE
        ELSE \/ /\ selRaised' = TRUE /\ selT' = 0
                /\ selOut' = vp[1]
             \/ /\ selRaised' = FALSE
                /\ IF SeqSum(vs) <= 0
                   THEN selT' = 0 /\ \E k \in 1..n : selOut' = vp[k]
                   ELSE \E t \in 0..SeqSum(vs) :
                          /\ selT' = t
                          /\ selOut' = vp[WalkChoice(vs, t)]
  /\ selDone' = TRUE
  /\ UNCHANGED selIn

SelSpecInit == SelectorInit /\ smembers = <<>> /\ RegFixed /\ ClientFixed /\ SweepFixed /\ CalcFixed /\ ApiFixed /\ HotFixed /\ ApplyFixed /\ LoopFixed /\ NormFixed /\ DynFixed /\ PoolCfgFixed
SelSpecNext == SelectorSelect /\ UNCHANGED <<smembers, regVars, clientVars, sweepVars, calcVars, apiVars, hotVars, applyVars, loopVars, normVars, dynVars, poolCfgVars>>
SelSpec == SelSpecInit /\ [][SelSpecNext]_vars

\* members with score > 0, as positions of selIn (the claims' filtered list)
Positive == {i \in 1..Len(selIn) : selIn[i] > 0}

\* C14: select returns None exactly when no member has score > 0; with exactly
\* one such member it returns that member; otherwise it returns a member of the
\* input whose score is > 0.
C14_SelectResult ==
  selDone =>
    /\ (selOut = 0 <=> Positive = {})
    /\ (Cardinality(Positive) = 1 => selOut \in Positive)
    /\ (selOut # 0 => selOut \in Positive)

C14_Witness ==
  /\ selDone /\ Cardinality(Positive) >= 2 /\ selOut # 0
  /\ \E i \in 1..Len(selIn) : selIn[i] <= 0

\* the filtered list's weights and the position in it of the returned member
FilteredWeights == [k \in 1..Len(ValidPositions(selIn)) |-> selIn[ValidPositions(selIn)[k]]]
OutRank == IF \E k \in 1..Len(ValidPositions(selIn)) : ValidPositions(selIn)[k] = selOut
           THEN CHOOSE k \in 1..Len(ValidPositions(selIn)) : ValidPositions(selIn)[k] = selOut
           ELSE 0

\* C15: in the weighted walk over filtered weights s_1..s_n (n >= 2) with total W
\* and draw point t in [0, W], the selected member k satisfies
\* C_{k-1} <= t < C_k, or k = n and t = W.
C15_WalkInterval ==
  (selDone /\ ~selRaised /\ Len(FilteredWeights) >= 2) =>
    LET ws == FilteredWeights
        n  == Len(ws)
        k  == OutRank
    IN /\ k \in 1..n
       /\ \/ Cum(ws, k - 1) <= selT /\ selT < Cum(ws, k)
          \/ k = n /\ selT = SeqSum(ws)

C15_Witness ==
  /\ selDone /\ ~selRaised /\ Len(FilteredWeights) >= 2
  /\ selT = Cum(FilteredWeights, 1)

\* C16: when the weighted choice raises inside select, select returns the last
\* member of the filtered (score > 0) list.
C16_ExceptionReturnsLast ==
  (selDone /\ selRaised) =>
    selOut = ValidPositions(selIn)[Len(ValidPositions(selIn))]

\* ====================================================== selection endpoint
\* positions select(members) can return for the given scores (0 = None)
SelectOutcomes(scores) ==
  LET vp == ValidPositions(scores)
      n  == Len(vp)
      vs == [k \in 1..n |-> scores[vp[k]]]
  IN IF n = 0 THEN {0}
     ELSE IF n = 1 THEN {vp[1]}
     ELSE {vp[1]} \cup {vp[WalkChoice(vs, t)] : t \in 0..SeqSum(vs)}

ApiKeys == <<"a", "b">>
\* fallback.member_*_threshold unset
NoThr == -1
FallbackCfgs == [fallback : BOOLEAN, runThr : {NoThr, 3}, waitThr : {NoThr, 3}]
ApiMemberValues == [score : {0, 2}, rr : {Missing, 1, 5}, wq : {Missing, 1, 5}]
\* "x" has no ":" (invalid format), "c" is a parseable member outside the pool
ReqLists == {<<>>, <<"x">>, <<"a">>, <<"b">>, <<"a", "b">>, <<"c">>}
NoResp == [status |-> 0, body |-> ""]
Ok(body) == [status |-> 200, body |-> body]

\* Scheduler._parse_candidate_members: entries of the form ip:port
ParseCandidates(req) == {req[i] : i \in 1..Len(req)} \cap {"a", "b", "c"}

\* Scheduler._get_intersection: pool members (in pool order) among the candidates
Intersection(ms, cands) == SelectSeq(ms, LAMBDA m : m.key \in cands)

ApiInit ==
  /\ apiPresent \in BOOLEAN
  /\ apiCfg \in FallbackCfgs
  /\ \E v \in [1..Len(ApiKeys) -> ApiMemberValues] :
       apiMembers = [i \in 1..Len(ApiKeys) |-> [key |-> ApiKeys[i]] @@ v[i]]
  /\ apiReq = <<>> /\ apiResp = NoResp /\ apiDone = FALSE

\* ConfigHotReloader -> _update_pools_config: the pool stays configured, its
\* POOLS entry is left as it is (only engine_type is copied)
ApiReload ==
  /\ \E c \in FallbackCfgs : apiCfg' = c
  /\ apiReq' = <<>> /\ apiResp' = NoResp /\ apiDone' = FALSE
  /\ UNCHANGED <<apiPresent, apiMembers>>

\* _fetch_all_pools creates the pool: Pool(name, partition, engine_type, members)
ApiFetchCreate ==
  /\ ~apiPresent
  /\ apiPresent' = TRUE
  /\ apiMembers' = [i \in 1..Len(ApiKeys) |->
                      [key |-> ApiKeys[i], score |-> InitialScore, rr |-> Missing, wq |-> Missing]]
  /\ apiReq' = <<>> /\ apiResp' = NoResp /\ apiDone' = FALSE
  /\ UNCHANGED apiCfg

\* select_optimal_member route -> Scheduler._do_select_optimal_member
ApiSelect ==
  /\ \E req \in ReqLists :
       /\ apiReq' = req
       /\ IF req = <<>>
          THEN apiResp' = [status |-> 400, body |-> "members cannot be empty"]
          ELSE IF ~apiPresent \/ ParseCandidates(req) = {}
          THEN apiResp' = Ok("none")
          ELSE LET inter == Intersection(apiMembers, ParseCandidates(req))
               IN IF inter = <<>>
                  THEN apiResp' = Ok("none")
                  ELSE \E pos \in SelectOutcomes([k \in 1..Len(inter) |-> inter[k].score]) :
                         apiResp' = Ok(IF pos = 0 THEN "none" ELSE inter[pos].key)
  /\ apiDone' = TRUE
  /\ UNCHANGED <<apiPresent, apiCfg, apiMembers>>

ApiNext == ApiReload \/ ApiFetchCreate \/ ApiSelect

ApiSpecInit == ApiInit /\ smembers = <<>> /\ RegFixed /\ ClientFixed /\ SweepFixed /\ CalcFixed /\ SelFixed /\ HotFixed /\ ApplyFixed /\ LoopFixed /\ NormFixed /\ DynFixed /\ PoolCfgFixed
ApiSpecNext == ApiNext /\ UNCHANGED <<smembers, regVars, clientVars, sweepVars, calcVars, selVars, hotVars, applyVars, loopVars, normVars, dynVars, poolCfgVars>>
ApiSpec == ApiSpecInit /\ [][ApiSpecNext]_vars

\* pool members named by the last request that can be parsed
ReqIntersection == {apiMembers[i].key : i \in 1..Len(apiMembers)} \cap ParseCandidates(apiReq)

\* C17: for a registered pool whose configuration has fallback.pool_fallback
\* = true (at startup or after a reload), a selection with at least one valid
\* candidate returns "fallback", whatever the scores and thresholds.
C17_PoolFallback ==
  (/\ apiDone /\ apiPresent /\ apiCfg.fallback
   /\ \E i \in 1..Len(apiMembers) : apiMembers[i].key \in ReqIntersection /\ apiMembers[i].score > 0) =>
    apiResp.body = "fallback"

\* C18: a selection never returns a member whose running_req exceeds the
\* configured running threshold or whose waiting_queue exceeds the configured
\* waiting threshold (members lacking the metric are kept).
C18_ThresholdsFilter ==
  (apiDone /\ apiResp.status = 200) =>
    \A i \in 1..Len(apiMembers) :
      apiMembers[i].key = apiResp.body =>
        /\ (apiCfg.runThr # NoThr /\ apiMembers[i].rr # Missing) => apiMembers[i].rr <= apiCfg.runThr
        /\ (apiCfg.waitThr # NoThr /\ apiMembers[i].wq # Missing) => apiMembers[i].wq <= apiCfg.waitThr

\* C19: the endpoint answers 200 "none" when the pool is unknown, when the
\* candidate list is empty or has no parseable entry, or when its intersection
\* with the pool's members is empty.
C19_NoneNotError ==
  (apiDone /\ (~apiPresent \/ ParseCandidates(apiReq) = {} \/ ReqIntersection = {})) =>
    apiResp = Ok("none")

\* ==================================================== configuration reload
MaxMtime == 2
Contents == {"v1", "v2"}
\* self.last_mtime = None, self.last_hash = None
NoMtime == -1
NoHash == [alg |-> "none", of |-> "none"]

\* hashlib.sha256(f.read()).hexdigest(), taken as collision free
Hash(c) == [alg |-> "sha256", of |-> c]

MtimeUnchanged(current, last) == current = last

\* current_mtime <= self.last_mtime
MtimeNotNewer(current, last) == current <= last

HotInit ==
  /\ fExists \in BOOLEAN /\ fMtime \in 0..MaxMtime /\ fContent \in Contents
  /\ hInit = FALSE /\ hLastM = NoMtime /\ hLastH = NoHash
  /\ hCalls = 0 /\ hRet = FALSE /\ hPrevInit = FALSE /\ hPrevM = NoMtime
  /\ hPrevH = NoHash /\ hCalled = FALSE

\* the file is written, touched or restored: new content and any mtime
FileWrite ==
  /\ \E m \in 0..MaxMtime, c \in Contents :
       fExists' = TRUE /\ fMtime' = m /\ fContent' = c
  /\ hRet' = FALSE /\ hPrevInit' = FALSE /\ hPrevM' = NoMtime /\ hPrevH' = NoHash
  /\ hCalled' = FALSE
  /\ UNCHANGED <<hInit, hLastM, hLastH, hCalls>>

FileDelete ==
  /\ fExists /\ fExists' = FALSE
  /\ hRet' = FALSE /\ hPrevInit' = FALSE /\ hPrevM' = NoMtime /\ hPrevH' = NoHash
  /\ hCalled' = FALSE
  /\ UNCHANGED <<fMtime, fContent, hInit, hLastM, hLastH, hCalls>>

\* ConfigHotReloader.detect_changes (with _initialize_baseline)
DetectChanges ==
  /\ IF ~hInit
     THEN /\ IF fExists
             THEN hLastM' = fMtime /\ hLastH' = Hash(fContent) /\ hInit' = TRUE
             ELSE UNCHANGED <<hLastM, hLastH, hInit>>
          /\ hRet' = FALSE
     ELSE IF ~fExists
     THEN hRet' = FALSE /\ UNCHANGED <<hLastM, hLastH, hInit>>
     ELSE IF hLastM # NoMtime /\ MtimeNotNewer(fMtime, hLastM)
     THEN hRet' = FALSE /\ UNCHANGED <<hLastM, hLastH, hInit>>
     ELSE IF hLastH = Hash(fContent)
     THEN hRet' = FALSE /\ UNCHANGED <<hLastM, hLastH, hInit>>
     ELSE hLastM' = fMtime /\ hLastH' = Hash(fContent) /\ hRet' = TRUE /\ UNCHANGED hInit
  /\ hPrevInit' = hInit /\ hPrevM' = hLastM /\ hPrevH' = hLastH
  /\ hCalls' = Min(hCalls + 1, 2) /\ hCalled' = TRUE
  /\ UNCHANGED <<fExists, fMtime, fContent>>

HotNext == FileWrite \/ FileDelete \/ DetectChanges

HotSpecInit == HotInit /\ smembers = <<>> /\ RegFixed /\ ClientFixed /\ SweepFixed /\ CalcFixed /\ SelFixed /\ ApiFixed /\ ApplyFixed /\ LoopFixed /\ NormFixed /\ DynFixed /\ PoolCfgFixed
HotSpecNext == HotNext /\ UNCHANGED <<smembers, regVars, clientVars, sweepVars, calcVars, selVars, apiVars, applyVars, loopVars, normVars, dynVars, poolCfgVars>>
HotSpec == HotSpecInit /\ [][HotSpecNext]_vars

\* C20 (as stated): detect_changes never returns true on its first call; on a
\* later call (file present, baseline established) it returns true exactly when
\* the mtime differs from the baseline mtime, in either direction, and the
\* SHA-256 differs from the baseline hash.
C20_ChangeEitherDirection ==
  hCalled =>
    /\ (hCalls = 1 => ~hRet)
    /\ ((hCalls = 2 /\ hPrevInit /\ fExists) =>
          (hRet <=> (fMtime # hPrevM /\ Hash(fContent) # hPrevH)))

\* C20 (amended): detect_changes never returns true on its first call; on a
\* later call (file present, baseline established) it returns true exactly when
\* the mtime is newer than the baseline mtime and the SHA-256 differs from the
\* baseline hash.
C20_ChangeNewerMtime ==
  hCalled =>
    /\ (hCalls = 1 => ~hRet)
    /\ ((hCalls = 2 /\ hPrevInit /\ fExists) =>
          (hRet <=> (fMtime > hPrevM /\ Hash(fContent) # hPrevH)))

C20_Witness == hCalled /\ hCalls = 2 /\ hRet

\* ======================================================= configuration apply
PoolKeys == {"p", "q"}
\* AppConfig fields the reload reads: f5.host, pools (the list of pool keys
\* in file order), the pools' engine_type and their other settings (metrics,
\* fallback), scheduler.pool_fetch_interval, scheduler.metrics_fetch_interval
\* ConfigLoader._parse_config results: f5.host and pools non-empty
ParsedCfgs == [host : {"h1", "h2"}, pools : {<<"p">>, <<"p", "q">>, <<"q", "p">>},
               eng : {"vllm", "bogus"}, metrics : {"/metrics", "/m2"},
               pfi : {0, 10, 20}, mfi : {0, 1000, 5000}]

\* files _parse_config rejects (empty f5.host, no pools): reload_config
\* raises before apply_config_changes; the outcome does not depend on the
\* other fields
RejectedCfgs == {[host |-> "", pools |-> <<"p">>, eng |-> "vllm", metrics |-> "/metrics", pfi |-> 10, mfi |-> 5000],
                 [host |-> "h1", pools |-> <<>>, eng |-> "vllm", metrics |-> "/metrics", pfi |-> 10, mfi |-> 5000]}

NewCfgs == ParsedCfgs \cup RejectedCfgs

\* ConfigLoader._create_default_config: AppConfig() when the file is missing
\* (at startup, or removed between detect_changes and reload_config)
DefaultCfg == [host |-> "", pools |-> <<>>, eng |-> "vllm", metrics |-> "/metrics",
               pfi |-> 10, mfi |-> 1000]

\* configurations ConfigLoader.load_config returns or raises on
LoadedCfgs == NewCfgs \cup {DefaultCfg}

\* pool keys of a pool list
PoolKeysOf(l) == {l[i] : i \in 1..Len(l)}

ValidConfigNoIntervals(c) == c.host # "" /\ c.pools # <<>>

\* SchedulerApp._validate_new_config (global.interval kept positive)
ValidConfig(c) ==
  /\ c.host # "" /\ c.pools # <<>>
  /\ c.pfi > 0 /\ c.mfi > 0

\* EngineType(engine_type) raises ValueError unless it names an engine
EngineOk(e) == e \in {"vllm", "sglang"}

\* _fetch_all_pools: _consecutive_failures at which a pool is deleted
FailThreshold == 5        \* failure_threshold in _fetch_all_pools
MaxApplyReloads == 1

\* ConfigLoader.load_config: the default configuration when the file is
\* missing, else _parse_config / _parse_pool_config: a non-empty f5.host, a
\* non-empty pools list with non-empty engine_type; intervals unchecked
ApplyInit ==
  /\ acfg \in ParsedCfgs \cup {DefaultCfg}
  /\ af5 = acfg.host /\ aReg = {} /\ aFails = [k \in PoolKeys |-> 0]
  /\ aIter = <<>> /\ aIdx = 0 /\ aRpc = "idle" /\ aNew = acfg /\ aReloads = 0
  /\ aPreF5 = af5 /\ aLast = "none"
  /\ aRestartP = FALSE /\ aRestartM = FALSE /\ aBadInput = FALSE

\* _fetch_all_pools entered by the pool fetch task: it iterates the pools
\* list object of self.config read now; absent while the task is cancelled
\* and not yet re-created
ApplyFetchBegin ==
  /\ aIter = <<>> /\ aRpc # "pool" /\ acfg.pools # <<>>
  /\ aIter' = [i \in 1..Len(acfg.pools) |-> [k |-> acfg.pools[i], eng |-> acfg.eng]]
  /\ aIdx' = 1 /\ aBadInput' = FALSE
  /\ UNCHANGED <<acfg, af5, aReg, aFails, aRpc, aNew, aReloads, aPreF5, aLast,
                 aRestartP, aRestartM>>

\* _fetch_all_pools: get_pool_members of one pool returns ("ok"), raises a
\* counted error ("serious") or an uncounted one ("temporary"); after a
\* successful fetch EngineType(engine_type) raises for an unknown engine,
\* reported as "Unknown error", which is counted
ApplyFetchOne ==
  /\ aIter # <<>>
  /\ LET k == aIter[aIdx].k
         ok == EngineOk(aIter[aIdx].eng)
     IN \E out \in {"ok", "serious", "temporary"} :
          \/ /\ out = "ok" /\ ok
             /\ aReg' = aReg \cup {k} /\ aFails' = [aFails EXCEPT ![k] = 0]
          \/ /\ out = "serious" \/ (out = "ok" /\ ~ok)
             /\ IF k \in aReg
                THEN IF aFails[k] + 1 >= FailThreshold
                     THEN aReg' = aReg \ {k} /\ aFails' = [aFails EXCEPT ![k] = 0]
                     ELSE aReg' = aReg /\ aFails' = [aFails EXCEPT ![k] = @ + 1]
                ELSE UNCHANGED <<aReg, aFails>>
          \/ out = "temporary" /\ UNCHANGED <<aReg, aFails>>
  /\ IF aIdx = Len(aIter)
     THEN aIter' = <<>> /\ aIdx' = 0
     ELSE aIter' = aIter /\ aIdx' = aIdx + 1
  /\ aBadInput' = FALSE
  /\ UNCHANGED <<acfg, af5, aRpc, aNew, aReloads, aPreF5, aLast, aRestartP, aRestartM>>

\* apply_config_changes steps 2, 3, 3', 4..7: the next await after stage s,
\* from _analyze_config_changes (f5, scheduler_pool_interval,
\* scheduler_metrics_interval)
StageAfter(s, new) ==
  IF s = "start" /\ new.host # acfg.host THEN "f5"
  ELSE IF s \in {"start", "f5"} /\ new.pfi # acfg.pfi THEN "pool"
  ELSE IF s \in {"start", "f5", "pool"} /\ new.mfi # acfg.mfi THEN "metrics"
  ELSE "finish"

\* apply_config_changes steps 4..7 (no await inside _update_pools_config):
\* _update_pools_config deletes the removed pools, updates the kept ones
\* (EngineType raises on an unknown engine) and removes orphan pools with no
\* failures; then self.config = new_config.  An exception is re-raised with
\* the effects so far.
ApplyCompletion(new) ==
  LET poolsCh == \/ acfg.pools # new.pools
                 \/ acfg.pools # <<>> /\ (acfg.eng # new.eng \/ acfg.metrics # new.metrics)
      removed == PoolKeysOf(acfg.pools) \ PoolKeysOf(new.pools)
      afterDel == aReg \ removed
      updated == PoolKeysOf(acfg.pools) \cap PoolKeysOf(new.pools)
      raises == /\ poolsCh /\ acfg.eng # new.eng /\ ~EngineOk(new.eng)
                /\ (updated \cap afterDel) # {}
      cleaned == {k \in afterDel : k \in PoolKeysOf(new.pools) \/ aFails[k] > 0}
  IN /\ IF raises
        THEN /\ aReg' = afterDel /\ aLast' = "failed"
             /\ UNCHANGED acfg
        ELSE /\ aReg' = IF poolsCh THEN cleaned ELSE aReg
             /\ acfg' = new /\ aLast' = "ok"
     /\ aFails' = [k \in PoolKeys |-> IF k \in aReg' THEN aFails[k] ELSE 0]

\* enter stage s of the reload of new: "f5" awaits f5_client.close(),
\* "pool" cancels the pool fetch task and awaits it, "metrics" cancels the
\* metrics task and awaits it, "finish" runs to the end
ApplyEnter(s, new, pre) ==
  IF s = "finish"
  THEN /\ aRpc' = "idle" /\ ApplyCompletion(new)
       /\ aNew' = acfg' /\ aPreF5' = af5'
       /\ UNCHANGED <<aIter, aIdx>>
  ELSE /\ aRpc' = s /\ aLast' = "none"
       /\ IF s = "pool" THEN aIter' = <<>> /\ aIdx' = 0
          ELSE UNCHANGED <<aIter, aIdx>>
       /\ aNew' = new /\ aPreF5' = pre
       /\ UNCHANGED <<acfg, aReg, aFails>>

\* configurations a reload reads: every one _validate_new_config accepts, and
\* one of each kind it rejects (a rejected one changes nothing, whatever its
\* other fields): the loader's rejections, the default configuration, a
\* non-positive pool_fetch_interval, a non-positive metrics_fetch_interval
ReloadInputs ==
  {c \in LoadedCfgs : ValidConfig(c)} \cup RejectedCfgs \cup {DefaultCfg}
  \cup {[host |-> "h1", pools |-> <<"p">>, eng |-> "vllm", metrics |-> "/metrics", pfi |-> 0, mfi |-> 5000],
        [host |-> "h1", pools |-> <<"p">>, eng |-> "vllm", metrics |-> "/metrics", pfi |-> 10, mfi |-> 0]}

\* _config_monitor_task -> reload_config -> apply_config_changes(new_config):
\* _validate_new_config raises ConfigurationError before any change
ApplyReloadBegin ==
  /\ aRpc = "idle" /\ aReloads < MaxApplyReloads
  /\ UNCHANGED af5
  /\ \E new \in ReloadInputs :
      /\ aBadInput' = (new.host = "" \/ new.pools = <<>> \/ new.pfi <= 0 \/ new.mfi <= 0)
      /\ aReloads' = aReloads + 1
      /\ aRestartP' = FALSE /\ aRestartM' = FALSE
      /\ IF ~ValidConfig(new)
         THEN /\ aLast' = "invalid"
              /\ UNCHANGED <<acfg, aReg, aFails, aIter, aIdx, aRpc, aNew, aPreF5>>
         ELSE ApplyEnter(StageAfter("start", new), new, af5)

\* the reload resumes: the old client is closed and replaced
\* (_update_f5_config), or the cancelled task has ended and a new one is
\* created (_restart_pool_fetch_task, _restart_metrics_collection_task)
ApplyReloadResume ==
  /\ aRpc \in {"f5", "pool", "metrics"}
  /\ af5' = IF aRpc = "f5" THEN aNew.host ELSE af5
  /\ aRestartP' = (aRestartP \/ aRpc = "pool")
  /\ aRestartM' = (aRestartM \/ aRpc = "metrics")
  /\ ApplyEnter(StageAfter(aRpc, aNew), aNew, aPreF5)
  /\ aBadInput' = FALSE
  /\ UNCHANGED aReloads

ApplyNext == ApplyFetchBegin \/ ApplyFetchOne \/ ApplyReloadBegin \/ ApplyReloadResume

ApplySpecInit == ApplyInit /\ smembers = <<>> /\ RegFixed /\ ClientFixed /\ SweepFixed /\ CalcFixed /\ SelFixed /\ ApiFixed /\ HotFixed /\ LoopFixed /\ NormFixed /\ DynFixed /\ PoolCfgFixed
ApplySpecNext == ApplyNext /\ UNCHANGED <<smembers, regVars, clientVars, sweepVars, calcVars, selVars, apiVars, hotVars, loopVars, normVars, dynVars, poolCfgVars>>
ApplySpec == ApplySpecInit /\ [][ApplySpecNext]_vars

C22_FailedApplyReverts ==
  [][(aRpc # "idle" /\ aLast' = "failed") =>
       /\ acfg' = acfg /\ af5' = aPreF5 /\ aReg' = aReg
       /\ ~aRestartP' /\ ~aRestartM']_vars

\* ---------------------------------------------------------------------------
\* Background loops (SchedulerApp._pool_fetch_task, _metrics_collection_task)
\* and their restart by apply_config_changes.  One event loop: a step runs
\* from one await to the next.  cancel() delivers CancelledError at the
\* task's current await; both loops catch it and break.
MaxReloads == 2
LoopPools == 2
PIntervals == {10, 20}
MIntervals == {5, 8}

LoopInit ==
  /\ lCfgP \in PIntervals /\ lCfgM \in MIntervals
  /\ ptPc = "start" /\ ptIdx = 0 /\ ptSleep = 0 /\ ptCancel = FALSE
  /\ ptRestarted = FALSE /\ ptTarget = 0 /\ ptAborted = FALSE
  /\ mtPc = "start" /\ mtIdx = 0 /\ mtInt = 0 /\ mtCancel = FALSE
  /\ mtRestarted = FALSE /\ mtTarget = 0 /\ mtAborted = FALSE
  /\ rpc = "idle" /\ rNewP = 0 /\ rNewM = 0 /\ rCount = 0
  /\ ptOk = FALSE /\ mtOk = FALSE

\* _pool_fetch_task: first run up to await asyncio.sleep(pool_fetch_interval)
PoolTaskStart ==
  /\ ptPc = "start" /\ ~ptCancel
  /\ ptPc' = "sleep" /\ ptSleep' = lCfgP
  /\ UNCHANGED <<lCfgP, lCfgM, ptIdx, ptCancel, ptRestarted, ptTarget, ptAborted,
                 mtPc, mtIdx, mtInt, mtCancel, mtRestarted, mtTarget, mtAborted,
                 rpc, rNewP, rNewM, rCount, ptOk, mtOk>>

\* the sleep ends; _fetch_all_pools starts and awaits get_pool_members of the
\* first pool
PoolTaskWake ==
  /\ ptPc = "sleep" /\ ~ptCancel
  /\ ptPc' = "iter" /\ ptIdx' = 0
  /\ UNCHANGED <<lCfgP, lCfgM, ptSleep, ptCancel, ptRestarted, ptTarget, ptAborted,
                 mtPc, mtIdx, mtInt, mtCancel, mtRestarted, mtTarget, mtAborted,
                 rpc, rNewP, rNewM, rCount, ptOk, mtOk>>

\* get_pool_members of one pool returns; after the last pool the loop re-reads
\* self.config.scheduler.pool_fetch_interval and sleeps
PoolTaskFetch ==
  /\ ptPc = "iter" /\ ~ptCancel
  /\ IF ptIdx + 1 = LoopPools
       THEN ptPc' = "sleep" /\ ptIdx' = 0 /\ ptSleep' = lCfgP
       ELSE ptIdx' = ptIdx + 1 /\ UNCHANGED <<ptPc, ptSleep>>
  /\ UNCHANGED <<lCfgP, lCfgM, ptCancel, ptRestarted, ptTarget, ptAborted,
                 mtPc, mtIdx, mtInt, mtCancel, mtRestarted, mtTarget, mtAborted,
                 rpc, rNewP, rNewM, rCount, ptOk, mtOk>>

\* CancelledError at the current await: except asyncio.CancelledError: break
PoolTaskCancelled ==
  /\ ptCancel /\ ptPc # "done"
  /\ ptPc' = "done" /\ ptCancel' = FALSE
  /\ ptAborted' = (ptAborted \/ ptPc = "iter")
  /\ UNCHANGED <<lCfgP, lCfgM, ptIdx, ptSleep, ptRestarted, ptTarget,
                 mtPc, mtIdx, mtInt, mtCancel, mtRestarted, mtTarget, mtAborted,
                 rpc, rNewP, rNewM, rCount, ptOk, mtOk>>

\* _metrics_collection_task: interval_seconds is read once, at task start
MetricsTaskStart ==
  /\ mtPc = "start" /\ ~mtCancel
  /\ mtPc' = "sleep" /\ mtInt' = lCfgM
  /\ UNCHANGED <<lCfgP, lCfgM, ptPc, ptIdx, ptSleep, ptCancel, ptRestarted, ptTarget,
                 ptAborted, mtIdx, mtCancel, mtRestarted, mtTarget, mtAborted,
                 rpc, rNewP, rNewM, rCount, ptOk, mtOk>>

MetricsTaskWake ==
  /\ mtPc = "sleep" /\ ~mtCancel
  /\ mtPc' = "iter" /\ mtIdx' = 0
  /\ UNCHANGED <<lCfgP, lCfgM, ptPc, ptIdx, ptSleep, ptCancel, ptRestarted, ptTarget,
                 ptAborted, mtInt, mtCancel, mtRestarted, mtTarget, mtAborted,
                 rpc, rNewP, rNewM, rCount, ptOk, mtOk>>

\* one pool of _collect_all_metrics' gather is scraped and scored; after the
\* last one the loop sleeps interval_seconds again
MetricsTaskScrape ==
  /\ mtPc = "iter" /\ ~mtCancel
  /\ IF mtIdx + 1 = LoopPools
       THEN mtPc' = "sleep" /\ mtIdx' = 0
       ELSE mtIdx' = mtIdx + 1 /\ UNCHANGED mtPc
  /\ UNCHANGED <<lCfgP, lCfgM, ptPc, ptIdx, ptSleep, ptCancel, ptRestarted, ptTarget,
                 ptAborted, mtInt, mtCancel, mtRestarted, mtTarget, mtAborted,
                 rpc, rNewP, rNewM, rCount, ptOk, mtOk>>

\* cancelling the task cancels the gather and its pool tasks
MetricsTaskCancelled ==
  /\ mtCancel /\ mtPc # "done"
  /\ mtPc' = "done" /\ mtCancel' = FALSE
  /\ mtAborted' = (mtAborted \/ mtPc = "iter")
  /\ UNCHANGED <<lCfgP, lCfgM, ptPc, ptIdx, ptSleep, ptCancel, ptRestarted, ptTarget,
                 ptAborted, mtIdx, mtInt, mtRestarted, mtTarget,
                 rpc, rNewP, rNewM, rCount, ptOk, mtOk>>

\* steps 4..7 of apply_config_changes, which contain no suspension: on
\* success self.config = new_config; a raise in _update_pools_config skips
\* the assignment.  newP / newM: the reload created the pool / metrics task.
ApplyFinish(ok, newP, newM) ==
  /\ lCfgP' = IF ok THEN rNewP ELSE lCfgP
  /\ lCfgM' = IF ok THEN rNewM ELSE lCfgM
  /\ ptOk' = IF newP THEN ok ELSE ptOk
  /\ mtOk' = IF newM THEN ok ELSE mtOk
  /\ rpc' = "idle"

\* config monitor: a reload starts apply_config_changes; it runs until the
\* first await of step 3 (await old_task) or to its end
ReloadBegin ==
  /\ rpc = "idle" /\ rCount < MaxReloads
  /\ \E np \in PIntervals, nm \in MIntervals :
       /\ rNewP' = np /\ rNewM' = nm /\ rCount' = rCount + 1
       /\ IF np # lCfgP
            THEN /\ ptCancel' = TRUE /\ rpc' = "awaitP"
                 /\ UNCHANGED <<lCfgP, lCfgM, mtCancel, ptOk, mtOk>>
            ELSE IF nm # lCfgM
              THEN /\ mtCancel' = TRUE /\ rpc' = "awaitM"
                   /\ UNCHANGED <<lCfgP, lCfgM, ptCancel, ptOk, mtOk>>
              ELSE /\ UNCHANGED <<ptCancel, mtCancel>>
                   /\ \E ok \in BOOLEAN :
                        /\ lCfgP' = IF ok THEN np ELSE lCfgP
                        /\ lCfgM' = IF ok THEN nm ELSE lCfgM
                        /\ rpc' = "idle"
                   /\ UNCHANGED <<ptOk, mtOk>>
  /\ UNCHANGED <<ptPc, ptIdx, ptSleep, ptRestarted, ptTarget, ptAborted,
                 mtPc, mtIdx, mtInt, mtRestarted, mtTarget, mtAborted>>

\* _restart_pool_fetch_task: await old_task returns; create_task of a new
\* _pool_fetch_task; then the metrics restart or steps 4..7
ReloadPoolRestarted ==
  /\ rpc = "awaitP" /\ ptPc = "done"
  /\ ptPc' = "start" /\ ptIdx' = 0 /\ ptCancel' = FALSE
  /\ ptRestarted' = TRUE /\ ptTarget' = rNewP
  /\ IF rNewM # lCfgM
       THEN /\ mtCancel' = TRUE /\ rpc' = "awaitM"
            /\ UNCHANGED <<lCfgP, lCfgM, mtOk>> /\ ptOk' = FALSE
       ELSE /\ UNCHANGED mtCancel
            /\ \E ok \in BOOLEAN : ApplyFinish(ok, TRUE, FALSE)
  /\ UNCHANGED <<ptSleep, ptAborted, mtPc, mtIdx, mtInt, mtRestarted, mtTarget,
                 mtAborted, rNewP, rNewM, rCount>>

\* _restart_metrics_collection_task: await old_task returns; create_task of a
\* new _metrics_collection_task; then steps 4..7
ReloadMetricsRestarted ==
  /\ rpc = "awaitM" /\ mtPc = "done"
  /\ mtPc' = "start" /\ mtIdx' = 0 /\ mtCancel' = FALSE
  /\ mtRestarted' = TRUE /\ mtTarget' = rNewM
  /\ \E ok \in BOOLEAN : ApplyFinish(ok, rNewP # lCfgP, TRUE)
  /\ UNCHANGED <<ptPc, ptIdx, ptSleep, ptCancel, ptRestarted, ptTarget, ptAborted,
                 mtInt, mtAborted, rNewP, rNewM, rCount>>

LoopNext ==
  \/ PoolTaskStart \/ PoolTaskWake \/ PoolTaskFetch \/ PoolTaskCancelled
  \/ MetricsTaskStart \/ MetricsTaskWake \/ MetricsTaskScrape \/ MetricsTaskCancelled
  \/ ReloadBegin \/ ReloadPoolRestarted \/ ReloadMetricsRestarted

LoopSpecInit == LoopInit /\ smembers = <<>> /\ RegFixed /\ ClientFixed /\ SweepFixed /\ CalcFixed /\ SelFixed /\ ApiFixed /\ HotFixed /\ ApplyFixed /\ NormFixed /\ DynFixed /\ PoolCfgFixed
LoopSpecNext == LoopNext /\ UNCHANGED <<smembers, regVars, clientVars, sweepVars, calcVars, selVars, apiVars, hotVars, applyVars, normVars, dynVars, poolCfgVars>>
LoopSpec == LoopSpecInit /\ [][LoopSpecNext]_vars

\* C23: a fetch or sweep iteration in progress when its loop is cancelled
\* runs to completion; no loop exits with an iteration left unfinished.
C23_InFlightCompletes == ~ptAborted /\ ~mtAborted

\* C30: a loop restarted by a successful reload sleeps the new interval of
\* that reload; it never uses the interval of the old configuration.
C30_RestartedUsesNewInterval ==
  /\ (ptRestarted /\ ptOk /\ ptPc = "sleep") => ptSleep = ptTarget
  /\ (mtRestarted /\ mtOk /\ mtPc \in {"sleep", "iter"}) => mtInt = mtTarget

\* ---------------------------------------------------------------------------
\* Normalisers of ScoreCalculator applied to one input vector.  Outputs in
\* thousandths.  tanh, log2 and ln come from tables rounded to the nearest
\* unit of the output scale.
NormLen == 3
NormVals == {0, 1, 2, 3}
NormAlgs == {"min_max", "precise_cache", "precise_running", "ratio", "smooth",
             "adaptive_general", "adaptive_waiting", "adaptive_cache", "rank"}

\* round(1000 * tanh(k / 100)) for k = 0..600
TanhTable ==
  <<0, 10, 20, 30, 40, 50, 60, 70, 80, 90, 100, 110, 119, 129, 139, 149, 159, 168, 178, 188,
   197, 207, 217, 226, 235, 245, 254, 264, 273, 282, 291, 300, 310, 319, 327, 336, 345, 354, 363, 371,
   380, 388, 397, 405, 414, 422, 430, 438, 446, 454, 462, 470, 478, 485, 493, 501, 508, 515, 523, 530,
   537, 544, 551, 558, 565, 572, 578, 585, 592, 598, 604, 611, 617, 623, 629, 635, 641, 647, 653, 658,
   664, 670, 675, 680, 686, 691, 696, 701, 706, 711, 716, 721, 726, 731, 735, 740, 744, 749, 753, 757,
   762, 766, 770, 774, 778, 782, 786, 789, 793, 797, 800, 804, 808, 811, 814, 818, 821, 824, 827, 831,
   834, 837, 840, 843, 845, 848, 851, 854, 856, 859, 862, 864, 867, 869, 872, 874, 876, 879, 881, 883,
   885, 887, 890, 892, 894, 896, 898, 900, 901, 903, 905, 907, 909, 910, 912, 914, 915, 917, 919, 920,
   922, 923, 925, 926, 927, 929, 930, 932, 933, 934, 935, 937, 938, 939, 940, 941, 943, 944, 945, 946,
   947, 948, 949, 950, 951, 952, 953, 954, 954, 955, 956, 957, 958, 959, 960, 960, 961, 962, 963, 963,
   964, 965, 965, 966, 967, 967, 968, 969, 969, 970, 970, 971, 972, 972, 973, 973, 974, 974, 975, 975,
   976, 976, 977, 977, 978, 978, 978, 979, 979, 980, 980, 980, 981, 981, 982, 982, 982, 983, 983, 983,
   984, 984, 984, 985, 985, 985, 986, 986, 986, 986, 987, 987, 987, 987, 988, 988, 988, 988, 989, 989,
   989, 989, 989, 990, 990, 990, 990, 990, 991, 991, 991, 991, 991, 992, 992, 992, 992, 992, 992, 992,
   993, 993, 993, 993, 993, 993, 993, 994, 994, 994, 994, 994, 994, 994, 994, 995, 995, 995, 995, 995,
   995, 995, 995, 995, 995, 996, 996, 996, 996, 996, 996, 996, 996, 996, 996, 996, 996, 996, 997, 997,
   997, 997, 997, 997, 997, 997, 997, 997, 997, 997, 997, 997, 997, 997, 997, 998, 998, 998, 998, 998,
   998, 998, 998, 998, 998, 998, 998, 998, 998, 998, 998, 998, 998, 998, 998, 998, 998, 998, 998, 998,
   999, 999, 999, 999, 999, 999, 999, 999, 999, 999, 999, 999, 999, 999, 999, 999, 999, 999, 999, 999,
   999, 999, 999, 999, 999, 999, 999, 999, 999, 999, 999, 999, 999, 999, 999, 999, 999, 999, 999, 999,
   999, 999, 999, 999, 999, 999, 999, 999, 999, 999, 999, 999, 999, 999, 999, 1000, 1000, 1000, 1000, 1000,
   1000, 1000, 1000, 1000, 1000, 1000, 1000, 1000, 1000, 1000, 1000, 1000, 1000, 1000, 1000, 1000, 1000, 1000, 1000, 1000,
   1000, 1000, 1000, 1000, 1000, 1000, 1000, 1000, 1000, 1000, 1000, 1000, 1000, 1000, 1000, 1000, 1000, 1000, 1000, 1000,
   1000, 1000, 1000, 1000, 1000, 1000, 1000, 1000, 1000, 1000, 1000, 1000, 1000, 1000, 1000, 1000, 1000, 1000, 1000, 1000,
   1000, 1000, 1000, 1000, 1000, 1000, 1000, 1000, 1000, 1000, 1000, 1000, 1000, 1000, 1000, 1000, 1000, 1000, 1000, 1000,
   1000, 1000, 1000, 1000, 1000, 1000, 1000, 1000, 1000, 1000, 1000, 1000, 1000, 1000, 1000, 1000, 1000, 1000, 1000, 1000,
   1000, 1000, 1000, 1000, 1000, 1000, 1000, 1000, 1000, 1000, 1000, 1000, 1000, 1000, 1000, 1000, 1000, 1000, 1000, 1000,
   1000, 1000, 1000, 1000, 1000, 1000, 1000, 1000, 1000, 1000, 1000, 1000, 1000, 1000, 1000, 1000, 1000, 1000, 1000, 1000,
   1000, 1000, 1000, 1000, 1000, 1000, 1000, 1000, 1000, 1000, 1000, 1000, 1000, 1000, 1000, 1000, 1000, 1000, 1000, 1000,
   1000, 1000, 1000, 1000, 1000, 1000, 1000, 1000, 1000, 1000, 1000, 1000, 1000, 1000, 1000, 1000, 1000, 1000, 1000, 1000,
   1000>>

\* math.tanh for an argument in hundredths, result in thousandths
TanhMilli(y) ==
  IF y >= 0 THEN (IF y > 600 THEN 1000 ELSE TanhTable[y + 1])
  ELSE -(IF -y > 600 THEN 1000 ELSE TanhTable[-y + 1])

\* math.log2(k) in thousandths, k = 1..5
Log2Milli(k) == <<0, 1000, 1585, 2000, 2322>>[k]

\* math.log(k) in hundredths, k = 1..5
LnCenti(k) == <<0, 69, 110, 139, 161>>[k]

ISqrt(x) == CHOOSE r \in 0..x : r * r <= x /\ (r + 1) * (r + 1) > x

\* floor(a * 10000 / d) without intermediate overflow
MulDiv10000(a, d) ==
  LET q  == a \div d
      r1 == a % d
      d1 == (r1 * 100) \div d
      r2 == (r1 * 100) % d
  IN q * 10000 + d1 * 100 + (r2 * 100) \div d

\* n * sum of values and sum of (n * x - S)^2, so that
\* mean = S / n and variance = Q / n^3
NormS(vals) == SeqSum(vals)
NormQ(vals) == SeqSum([i \in 1..Len(vals) |->
                 (Len(vals) * vals[i] - NormS(vals)) * (Len(vals) * vals[i] - NormS(vals))])

\* z-score (x_i - mean) / std_dev in hundredths; 0 when the variance is 0
ZCenti(vals, i) ==
  LET n == Len(vals)
      d == n * vals[i] - NormS(vals)
      q == NormQ(vals)
      m == ISqrt(MulDiv10000(d * d * n, q))
  IN IF q = 0 THEN 0 ELSE IF d < 0 THEN -m ELSE m

\* ScoreCalculator._smooth_normalize
SmoothRange(lo, hi) ==
  LET lt(c) == IF lo > 0 THEN 100 * (hi - lo) < c * lo ELSE 100 * (hi - lo) < c
  IN IF lt(10) THEN <<450, 550>>
     ELSE IF lt(30) THEN <<350, 650>>
     ELSE IF lt(80) THEN <<250, 750>>
     ELSE IF lt(200) THEN <<150, 850>>
     ELSE <<50, 950>>

SmoothNormalize(vals) ==
  IF Len(vals) <= 1 THEN [i \in 1..Len(vals) |-> 500]
  ELSE LET lo == SeqMin(vals)
           hi == SeqMax(vals)
           r  == SmoothRange(lo, hi)
       IN IF hi = lo THEN [i \in 1..Len(vals) |-> 500]
          ELSE [i \in 1..Len(vals) |->
                  r[1] + ((vals[i] - lo) * (r[2] - r[1])) \div (hi - lo)]

\* strategy 2 of the precise normalisers: base + 0.8 / (1 + exp(-2 z / 3))
SigmaStrategy(vals, base) ==
  [i \in 1..Len(vals) |->
     base + (800 * (1000 + TanhMilli(ZCenti(vals, i) \div 3))) \div 2000]

\* ScoreCalculator._precise_cache_normalize
PreciseCacheNormalize(vals) ==
  IF Len(vals) = 1 THEN <<500>>
  ELSE LET lo == SeqMin(vals)
           hi == SeqMax(vals)
       IN IF hi = lo THEN [i \in 1..Len(vals) |-> 500]
          ELSE IF lo > 0
               THEN [i \in 1..Len(vals) |->
                       200 + (800 * (Log2Milli(vals[i]) - Log2Milli(lo)))
                               \div (Log2Milli(hi) - Log2Milli(lo))]
               ELSE SigmaStrategy(vals, 200)

\* ScoreCalculator._precise_running_normalize
PreciseRunningNormalize(vals) ==
  IF Len(vals) = 1 THEN <<500>>
  ELSE LET lo == SeqMin(vals)
           hi == SeqMax(vals)
       IN IF hi = lo THEN [i \in 1..Len(vals) |-> 500]
          ELSE IF lo >= 0
               THEN [i \in 1..Len(vals) |->
                       150 + (800 * (Log2Milli(vals[i] + 1) - Log2Milli(lo + 1)))
                               \div (Log2Milli(hi + 1) - Log2Milli(lo + 1))]
               ELSE SigmaStrategy(vals, 150)

\* ScoreCalculator._rank_based_normalize: position in a stable sort by value
Rank(vals, i) ==
  Cardinality({j \in 1..Len(vals) : vals[j] < vals[i]})
  + Cardinality({j \in 1..(i - 1) : vals[j] = vals[i]})

RankBasedNormalize(vals, lo, hi) ==
  IF Len(vals) = 1 THEN <<500>>
  ELSE [i \in 1..Len(vals) |-> lo + (Rank(vals, i) * (hi - lo)) \div (Len(vals) - 1)]

\* original_order == normalized_order for Python's stable sorted()
SameStableOrder(vals, out) ==
  \A i, j \in 1..Len(vals) :
    i < j => ((vals[i] <= vals[j]) <=> (out[i] <= out[j]))

\* coefficient of variation below c / 10
CvBelow(vals, c) ==
  LET n == Len(vals)
      s == NormS(vals)
      q == NormQ(vals)
  IN IF s # 0 THEN q * 100 < c * c * n * s * s
     ELSE q = 0 \/ q * 100 < c * c * n * n * n

\* ScoreCalculator._adaptive_distribution_normalize; sensitivity in
\* twentieths, output range in thousandths
RECURSIVE AdaptiveNormalize(_, _)
AdaptiveNormalize(vals, metric) ==
  IF Len(vals) <= 1 THEN [i \in 1..Len(vals) |-> 500]
  ELSE
    LET tier == IF CvBelow(vals, 1) THEN <<60, 400, 600>>
                ELSE IF CvBelow(vals, 3) THEN <<40, 250, 750>>
                ELSE IF CvBelow(vals, 8) THEN <<30, 150, 850>>
                ELSE <<20, 100, 900>>
        sens == IF metric = "cache_usage" THEN (tier[1] * 3) \div 2 ELSE tier[1]
        rng  == IF metric = "cache_usage" /\ CvBelow(vals, 2)
                THEN <<350, 650>> ELSE <<tier[2], tier[3]>>
        out  == [i \in 1..Len(vals) |->
                   Max(0, Min(1000,
                     rng[1] + ((1000 + TanhMilli((ZCenti(vals, i) * sens) \div 40))
                               * (rng[2] - rng[1])) \div 2000))]
    IN IF metric = "waiting_queue" /\ SeqMax(vals) > 10 * SeqMin(vals) /\ SeqMin(vals) >= 0
       THEN AdaptiveNormalize([i \in 1..Len(vals) |-> LnCenti(Max(1, vals[i] + 1))], "general")
       ELSE IF SameStableOrder(vals, out) THEN out
       ELSE RankBasedNormalize(vals, rng[1], rng[2])

Normalize(alg, vals) ==
  CASE alg = "min_max"          -> MinMaxNormalize(vals)
    [] alg = "precise_cache"    -> PreciseCacheNormalize(vals)
    [] alg = "precise_running"  -> PreciseRunningNormalize(vals)
    [] alg = "ratio"            -> RatioBasedNormalize(vals)
    [] alg = "smooth"           -> SmoothNormalize(vals)
    [] alg = "adaptive_general" -> AdaptiveNormalize(vals, "general")
    [] alg = "adaptive_waiting" -> AdaptiveNormalize(vals, "waiting_queue")
    [] alg = "adaptive_cache"   -> AdaptiveNormalize(vals, "cache_usage")
    [] alg = "rank"             -> RankBasedNormalize(vals, 100, 900)

NormInputs == UNION {[1..k -> NormVals] : k \in 1..NormLen}

NormInit == nAlg \in NormAlgs /\ nIn \in NormInputs /\ nOut = <<>> /\ nDone = FALSE

NormApply ==
  /\ ~nDone
  /\ nOut' = Normalize(nAlg, nIn)
  /\ nDone' = TRUE
  /\ UNCHANGED <<nAlg, nIn>>

NormNext == NormApply

NormSpecInit == NormInit /\ smembers = <<>> /\ RegFixed /\ ClientFixed /\ SweepFixed /\ CalcFixed /\ SelFixed /\ ApiFixed /\ HotFixed /\ ApplyFixed /\ LoopFixed /\ DynFixed /\ PoolCfgFixed
NormSpecNext == NormNext /\ UNCHANGED <<smembers, regVars, clientVars, sweepVars, calcVars, selVars, apiVars, hotVars, applyVars, loopVars, dynVars, poolCfgVars>>
NormSpec == NormSpecInit /\ [][NormSpecNext]_vars

\* C24: every normaliser preserves the order of its inputs: a smaller input
\* never gets a larger output, and equal inputs get equal outputs.
C24_OrderPreserving ==
  nDone =>
    \A i, j \in 1..Len(nIn) :
      /\ nIn[i] < nIn[j] => nOut[i] <= nOut[j]
      /\ nIn[i] = nIn[j] => nOut[i] = nOut[j]

AllEqual(s) == \A i, j \in 1..Len(s) : s[i] = s[j]

\* C25 as stated: every normaliser, plain min-max included, maps a single
\* input to 0.5; on equal inputs min-max gives zeros and smooth and
\* adaptive-distribution give the middle of their output window.
C25_SingleIsHalf ==
  nDone =>
    /\ Len(nIn) = 1 => nOut = <<500>>
    /\ (Len(nIn) >= 2 /\ AllEqual(nIn)) =>
         /\ nAlg = "min_max" => \A i \in 1..Len(nOut) : nOut[i] = 0
         /\ nAlg \in {"smooth", "adaptive_general", "adaptive_waiting", "adaptive_cache"}
              => \A i \in 1..Len(nOut) : nOut[i] = 500


\* ---------------------------------------------------------------------------
\* Weight adjustment of _calculate_s1_dynamic_waiting_scores and
\* _calculate_s2_dynamic_waiting_scores
MaxDynWaiting == 4
DynTransitions == {2, 30}
DynSteepness == {1, 2}
DynTriples == {<<4, 3, 3>>, <<2, 2, 6>>}

\* (min, max) factor pairs in thousandths, per weight
S1Factors == <<<<200, 2500>>, <<1800, 300>>>>
S2FactorsAsS1 == <<<<200, 2500>>, <<1800, 300>>, <<1400, 600>>>>
S2Factors == <<<<100, 2500>>, <<1500, 400>>, <<1400, 600>>>>

\* math.tanh(max_waiting * steepness / transition_point), in thousandths
WaitingIntensity(m, st, tp) == TanhMilli((m * st * 100) \div tp)

\* min_factor + (max_factor - min_factor) * waiting_intensity
Factors(fs, iota) == [i \in 1..Len(fs) |-> fs[i][1] + ((fs[i][2] - fs[i][1]) * iota) \div 1000]

\* progressive weights rescaled by original_sum / total_progressive when
\* total_progressive > 0
EffectiveWeights(w, f) ==
  LET pw    == [i \in 1..Len(w) |-> w[i] * f[i]]
      total == SeqSum(pw)
      orig  == SeqSum(w)
  IN IF total > 0 THEN [i \in 1..Len(w) |-> <<pw[i] * orig, total>>]
     ELSE [i \in 1..Len(w) |-> <<pw[i], 1000>>]

DynInit ==
  /\ \/ dAlg = "s1_dynamic_waiting" /\ dW \in WeightPairs
     \/ dAlg = "s2_dynamic_waiting" /\ dW \in DynTriples
  /\ dM \in 0..MaxDynWaiting /\ dSt \in DynSteepness /\ dTp \in DynTransitions
  /\ dIota = 0 /\ dF = <<>> /\ dEff = <<>> /\ dDone = FALSE

DynAdjust ==
  /\ ~dDone
  /\ LET iota == WaitingIntensity(dM, dSt, dTp)
         f    == Factors(IF dAlg = "s1_dynamic_waiting" THEN S1Factors ELSE S2Factors, iota)
     IN /\ dIota' = iota /\ dF' = f /\ dEff' = EffectiveWeights(dW, f)
  /\ dDone' = TRUE
  /\ UNCHANGED <<dAlg, dW, dM, dSt, dTp>>

DynNext == DynAdjust

DynSpecInit == DynInit /\ smembers = <<>> /\ RegFixed /\ ClientFixed /\ SweepFixed /\ CalcFixed /\ SelFixed /\ ApiFixed /\ HotFixed /\ ApplyFixed /\ LoopFixed /\ NormFixed /\ PoolCfgFixed
DynSpecNext == DynNext /\ UNCHANGED <<smembers, regVars, clientVars, sweepVars, calcVars, selVars, apiVars, hotVars, applyVars, loopVars, normVars, poolCfgVars>>
DynSpec == DynSpecInit /\ [][DynSpecNext]_vars

\* factor min + (max - min) * iota for min, max in thousandths
Interp(lo, hi) == lo + ((hi - lo) * dIota) \div 1000

\* the effective weights add up to the configured total
EffSumPreserved ==
  /\ \A i \in 1..Len(dEff) : dEff[i][2] = dEff[1][2]
  /\ SeqSum([i \in 1..Len(dEff) |-> dEff[i][1]]) = SeqSum(dW) * dEff[1][2]

\* C26 as stated: in s1 and s2, iota = tanh(M * steepness / transition_point),
\* w_a's factor goes from 0.2 to 2.5, w_b's from 1.8 to 0.3, and in s2 w_g's
\* from 1.4 to 0.6; the rescaled weights sum to the configured sum.
C26_SharedFactors ==
  dDone =>
    /\ dIota = WaitingIntensity(dM, dSt, dTp)
    /\ dF[1] = Interp(200, 2500) /\ dF[2] = Interp(1800, 300)
    /\ dAlg = "s2_dynamic_waiting" => dF[3] = Interp(1400, 600)
    /\ EffSumPreserved

\* C26 amended: s1 as stated; s2 moves w_a's factor from 0.1 to 2.5, w_b's
\* from 1.5 to 0.4 and w_g's from 1.4 to 0.6; the rescaled weights sum to
\* the configured sum in both.
C26_PerAlgorithmFactors ==
  dDone =>
    /\ dIota = WaitingIntensity(dM, dSt, dTp)
    /\ dAlg = "s1_dynamic_waiting" =>
         dF[1] = Interp(200, 2500) /\ dF[2] = Interp(1800, 300)
    /\ dAlg = "s2_dynamic_waiting" =>
         /\ dF[1] = Interp(100, 2500) /\ dF[2] = Interp(1500, 400)
         /\ dF[3] = Interp(1400, 600)
    /\ EffSumPreserved

C26_Witness == dDone /\ dAlg = "s2_dynamic_waiting" /\ dIota > 500

\* ---------------------------------------------------------------------------
\* Pool configuration, the POOLS registry and the membership fetch loop.
\* A reload changes the pools only (_update_pools_config); it has no await.
\* _fetch_all_pools iterates the list object self.config.pools had when the
\* iteration started and awaits get_pool_members for each pool.
MaxPoolReloads == 2
CfgKeys == {"K", "L"}
CfgLists == {<<"K">>, <<"L">>, <<"K", "L">>}

PoolCfgInit ==
  /\ ccfg \in CfgLists /\ creg = {} /\ cfails = [k \in CfgKeys |-> 0]
  /\ cfpc = "idle" /\ cflist = <<>> /\ cfidx = 0 /\ creloads = 0 /\ cgone = {}

\* the fetch loop wakes: for pool_config in self.config.pools, first await
FetchIterStart ==
  /\ cfpc = "idle" /\ ccfg # <<>>
  /\ cfpc' = "iter" /\ cflist' = ccfg /\ cfidx' = 1
  /\ UNCHANGED <<ccfg, creg, cfails, creloads, cgone>>

\* get_pool_members of cflist[cfidx] returns (ok), raises a failure counted
\* by _analyze_fetch_failure (serious) or one it does not count (temporary)
FetchPoolDone ==
  /\ cfpc = "iter"
  /\ LET k == cflist[cfidx] IN
     \E outcome \in {"ok", "serious", "temporary"} :
       CASE outcome = "ok" ->
              /\ creg' = creg \cup {k}
              /\ cfails' = [cfails EXCEPT ![k] = 0]
         [] outcome = "serious" ->
              IF k \in creg
              THEN IF cfails[k] + 1 >= FailThreshold
                   THEN creg' = creg \ {k} /\ cfails' = [cfails EXCEPT ![k] = 0]
                   ELSE creg' = creg /\ cfails' = [cfails EXCEPT ![k] = @ + 1]
              ELSE UNCHANGED <<creg, cfails>>
         [] outcome = "temporary" -> UNCHANGED <<creg, cfails>>
  /\ IF cfidx = Len(cflist)
     THEN cfpc' = "idle" /\ cflist' = <<>> /\ cfidx' = 0
     ELSE cfidx' = cfidx + 1 /\ UNCHANGED <<cfpc, cflist>>
  /\ UNCHANGED <<ccfg, creloads, cgone>>

\* apply_config_changes with a pools change: _update_pools_config deletes the
\* removed pools, then the orphaned registry entries whose
\* _consecutive_failures is 0; then self.config = new_config
ReloadPools ==
  /\ creloads < MaxPoolReloads
  /\ \E new \in CfgLists :
       LET removed  == PoolKeysOf(ccfg) \ PoolKeysOf(new)
           afterDel == creg \ removed
           cleaned  == {k \in afterDel \ PoolKeysOf(new) : cfails[k] = 0}
           deleted  == (creg \cap removed) \cup cleaned
       IN /\ creg' = afterDel \ cleaned
          /\ cfails' = [k \in CfgKeys |-> IF k \in creg' THEN cfails[k] ELSE 0]
          /\ ccfg' = new
          /\ cgone' = (cgone \cup deleted) \ PoolKeysOf(new)
  /\ creloads' = creloads + 1
  /\ UNCHANGED <<cfpc, cflist, cfidx>>

PoolCfgNext == FetchIterStart \/ FetchPoolDone \/ ReloadPools

PoolCfgSpecInit == PoolCfgInit /\ smembers = <<>> /\ RegFixed /\ ClientFixed /\ SweepFixed /\ CalcFixed /\ SelFixed /\ ApiFixed /\ HotFixed /\ ApplyFixed /\ LoopFixed /\ NormFixed /\ DynFixed
PoolCfgSpecNext == PoolCfgNext /\ UNCHANGED <<smembers, regVars, clientVars, sweepVars, calcVars, selVars, apiVars, hotVars, applyVars, loopVars, normVars, dynVars>>
PoolCfgSpec == PoolCfgSpecInit /\ [][PoolCfgSpecNext]_vars

\* the fetch loop keeps running: _pool_fetch_task sleeps and fetches forever
PoolFetchStep == (FetchIterStart \/ FetchPoolDone) /\ UNCHANGED <<smembers, regVars, clientVars, sweepVars, calcVars, selVars, apiVars, hotVars, applyVars, loopVars, normVars, dynVars>>
PoolCfgFairSpec == PoolCfgSpec /\ WF_vars(PoolFetchStep)

\* C28: a pool key that a reload removed from the configuration and deleted
\* from the registry stays out of the registry until it is configured
\* again, also when a fetch iteration started before the reload fetches it.
C28_RemovedPoolStaysGone == \A k \in cgone : k \notin creg

\* C29: every registry entry whose key is not configured is eventually
\* removed from the registry (or configured again), with the loops running.
C29_OrphanEventuallyRemoved ==
  \A k \in CfgKeys : (k \in creg /\ k \notin PoolKeysOf(ccfg)) ~> (k \notin creg \/ k \in PoolKeysOf(ccfg))

====
